---- MODULE Spec2Model ----
(***************************************************************************)
(* Verification model of the delay-aware PD gain-space search of the       *)
(* double inverted pendulum simulation software:                           *)
(*   - the closed-loop simulator _PD_CL_Simulator (one run, tick by tick), *)
(*   - the integrator num_sim_step_pd_tune and the plant model,            *)
(*   - the scheduler _iterate_in_range on multiprocessing.Pool.map,        *)
(*   - the ranking calc_PD_scores.                                         *)
(*                                                                         *)
(* Reals are represented in fixed point: an angle is an integer number of  *)
(* 1/AngleScale rad, a time an integer number of 1/TimeDen s.  sin and cos *)
(* are taken to first order about the upright position (sin a = a,         *)
(* cos a = 1); every quotient is truncated toward zero.                    *)
(***************************************************************************)
EXTENDS Integers, Sequences, FiniteSets, TLC

VARIABLES
    args,       \* the argument tuple of the running _PD_CL_Simulator call
    sim,        \* the locals of that call, and its position (sim.pc)
    inp,        \* the inputs of a search (_iterate_in_range, generate_optimization)
    search,     \* the position and locals of the search
    pool,       \* the task batches of Pool.map and its MapResult
    running,    \* the batches taken by a worker and not yet reported
    exec,       \* which execution of the search this is, and the first one's outcome
    files,      \* the file system: the bytes written under each path
    loader,     \* a PD_Controller that loads a saved ranking
    ss,         \* a state_space object
    calc,       \* a call of a library function: its position and what it returned
    app         \* the running application: SIM_STATE_VAR and the threads' positions

simvars == <<args, sim>>

searchvars == <<inp, search, pool, running, exec>>

libvars == <<files, loader, ss, calc>>

vars == <<args, sim, inp, search, pool, running, exec, files, loader, ss, calc, app>>

-----------------------------------------------------------------------------
(* Bounds of the model *)

AngleScale == 1000      \* angle units per radian
TimeDen == 8            \* time units per second
MaxDelay == 5           \* largest delay tried, in time units
MaxRunTime == 6         \* largest run duration tried, in time units

-----------------------------------------------------------------------------
(* Arithmetic helpers *)

Abs(a) == IF a < 0 THEN -a ELSE a

Max(a, b) == IF a >= b THEN a ELSE b

\* Float division a / b, truncated toward zero on the fixed-point grid.
Quot(a, b) ==
    LET q == Abs(a) \div Abs(b)
    IN  IF (a >= 0) = (b > 0) THEN q ELSE -q

\* Python's round(a / b) for a >= 0, b > 0: to nearest, ties to even.
Round(a, b) ==
    LET q == a \div b
        r == a % b
    IN  IF 2 * r < b THEN q
        ELSE IF 2 * r > b THEN q + 1
        ELSE IF q % 2 = 0 THEN q ELSE q + 1

\* The ceiling of a / b for a >= 0, b > 0.
Ceil(a, b) == (a + b - 1) \div b

Last(s) == s[Len(s)]

-----------------------------------------------------------------------------
(* numpy shapes: <<>> is a scalar, <<2>> a 1-D array, <<4, 1>> a column *)

ScalarShape == <<>>

BroadcastShape(s, t) ==
    LET n == Max(Len(s), Len(t))
        pad(q) == [i \in 1..n |-> IF i <= n - Len(q) THEN 1 ELSE q[i - (n - Len(q))]]
    IN  [i \in 1..n |-> Max(pad(s)[i], pad(t)[i])]

\* check_matrix_shape: TRUE when both assertions pass.
check_matrix_shape(matrix, n, m) == matrix.shape = <<n, m>>

-----------------------------------------------------------------------------
(* Plant model and integrator (num_sim_for_tune.py) *)

\* Entries of A (rows 3 and 4), numerators of B with their common denominator,
\* and L, for the trigonometric values X_list and the angular velocities.
sys_matrices_double_pendulum(sys_consts_double, X_list, dphi1, dphi2) ==
    LET C1 == sys_consts_double[1]
        C2 == sys_consts_double[2]
        C3 == sys_consts_double[3]
        C4 == sys_consts_double[4]
        C5 == sys_consts_double[5]
        m1 == sys_consts_double[6]
        m2 == sys_consts_double[7]
        l1 == sys_consts_double[8]
        l2 == sys_consts_double[9]
        X1 == X_list[1]
        X2 == X_list[2]
        X3 == X_list[3]
        X4 == X_list[4]
        X5 == X_list[5]
        X6 == X_list[6]
        s1 == C3 * C3 * X6 * X6 - C1 * C2
    IN  [ A33 |-> Quot(dphi1 * C3 * C3 * X6 * X5, s1 * AngleScale),
          A34 |-> Quot(dphi2 * C2 * C3 * X5, s1 * AngleScale),
          A43 |-> Quot(-dphi1 * C1 * C3 * X5, s1 * AngleScale),
          A44 |-> Quot(-dphi2 * C3 * C3 * X6 * X5, s1 * AngleScale),
          B3n |-> -(C2 * l1 * m1 * X2 + 2 * C2 * l1 * m2 * X2 - C3 * l2 * m2 * X4 * X6),
          B4n |-> C3 * l1 * m1 * X2 * X6 - C1 * l2 * m2 * X4 + 2 * C3 * l1 * m2 * X2 * X6,
          Bd  |-> 2 * s1,
          L3  |-> Quot(C2 * C4 * X1 - C3 * C5 * X3 * X6, s1),
          L4  |-> Quot(C1 * C5 * X3 - C3 * C4 * X1 * X6, s1) ]

\* xdot = A x + B u + L, on the values of x (a 4-tuple) and of u.
mov_eqn_double_pendulum(sys_consts, x, u) ==
    LET phi1 == x[1]
        phi2 == x[2]
        dphi1 == x[3]
        dphi2 == x[4]
        X_list == <<phi1, 1, phi2, 1, phi1 - phi2, 1>>
        xdot(M) ==
            << dphi1,
               dphi2,
               Quot(M.A33 * dphi1 + M.A34 * dphi2, AngleScale) + Quot(M.B3n * u, M.Bd) + M.L3,
               Quot(M.A43 * dphi1 + M.A44 * dphi2, AngleScale) + Quot(M.B4n * u, M.Bd) + M.L4 >>
    IN  xdot(sys_matrices_double_pendulum(sys_consts, X_list, dphi1, dphi2))

\* x + k * num / den, componentwise
AddScaled(x, k, num, den) == [j \in 1..4 |-> x[j] + Quot(k[j] * num, den)]

\* One RK4 step.  x and u are arrays [val, shape]; the result array takes the
\* broadcast shape of x and B * u.
num_sim_step_pd_tune(sys_consts, x, u, dt) ==
    LET f(y) == mov_eqn_double_pendulum(sys_consts, y, u.val)
        sh == BroadcastShape(x.shape, BroadcastShape(<<4, 1>>, u.shape))
        \* return x + dx * dt, dx
        Result(dx) ==
            [ next_x   |-> [val |-> AddScaled(x.val, dx, dt, TimeDen), shape |-> sh],
              d_next_x |-> [val |-> dx, shape |-> sh] ]
        \* dx = (k1 + 2 * k2 + 2 * k3 + k4) / 6.0
        WithK4(k1, k2, k3, k4) ==
            Result([j \in 1..4 |-> Quot(k1[j] + 2 * k2[j] + 2 * k3[j] + k4[j], 6)])
        \* k4 = f(x + k3 * dt)
        WithK3(k1, k2, k3) == WithK4(k1, k2, k3, f(AddScaled(x.val, k3, dt, TimeDen)))
        \* k3 = f(x + 0.5 * k2 * dt)
        WithK2(k1, k2) == WithK3(k1, k2, f(AddScaled(x.val, k2, dt, 2 * TimeDen)))
        \* k2 = f(x + 0.5 * k1 * dt)
        WithK1(k1) == WithK2(k1, f(AddScaled(x.val, k1, dt, 2 * TimeDen)))
    IN  \* k1 = f(x)
        WithK1(f(x.val))

-----------------------------------------------------------------------------
(* The closed-loop simulator _PD_CL_Simulator (cpu_pd_tune_funs.py) *)

Jitter == 1             \* half-width of the step-size jitter, in time units

\* The values random.uniform(Ts - Jitter, Ts + Jitter) is sampled at.
JitterChoices(Ts) == {Ts - Jitter, Ts, Ts + Jitter}

Zero == [val |-> 0, shape |-> ScalarShape]

\* Lines 37-43: the locals before the loop.  computed and tested are history
\* fields: the control value computed, and the angle tested, by each tick.
SimLocals(a) ==
    [ data_stream     |-> <<>>,
      n               |-> Round(a.run_time, a.Ts),
      next_x          |-> a.x_0,
      delay_in_frames |-> Round(a.delay, a.Ts),
      finish_flag     |-> TRUE,
      ddq_stack       |-> [j \in 1..Round(a.delay, a.Ts) |-> Zero],
      time_c          |-> 0,
      i               |-> 0,
      pc              |-> "loop",
      computed        |-> <<>>,
      tested          |-> <<>> ]

\* Line 47: the pre-integration divergence test.
ExceedsLimit(phi_1, max_angle_rad) == Abs(phi_1) > max_angle_rad

\* Mutant: the break is missing, the loop goes on to the next tick.
OnDivergeNoBreak(s) == [s EXCEPT !.finish_flag = FALSE, !.i = @ + 1]

\* Lines 48-49: finish_flag = False; break.
OnDiverge(s) == [s EXCEPT !.finish_flag = FALSE, !.pc = "after_loop"]

\* Line 51: ddq = -(K_p * phi_1 + K_d * next_x[2][0]).
ControlLaw(K_p, K_d, x) ==
    [ val   |-> -(K_p.val * x.val[1] + K_d.val * x.val[3]),
      shape |-> BroadcastShape(K_p.shape, K_d.shape) ]

\* Mutant: a delay line of constant length, the oldest entry dropped once full.
PushDdqBounded(s, ddq) ==
    IF Len(s.ddq_stack) > s.delay_in_frames
    THEN Tail(Append(s.ddq_stack, ddq))
    ELSE Append(s.ddq_stack, ddq)

\* Line 52: ddq_stack.append(ddq).
PushDdq(s, ddq) == Append(s.ddq_stack, ddq)

\* Mutant: the index is off by one, u = ddq_stack[-delay_in_frames].
ReadDelayedOffByOne(ddq_stack, delay_in_frames) ==
    IF delay_in_frames = 0 THEN ddq_stack[1]
    ELSE ddq_stack[Len(ddq_stack) - delay_in_frames + 1]

\* Line 53: u = ddq_stack[-(1 + delay_in_frames)].
ReadDelayed(ddq_stack, delay_in_frames) == ddq_stack[Len(ddq_stack) - delay_in_frames]

\* Lines 46-61: one iteration of the loop, with the step size rnd_ts drawn.
LoopBody(a, s, rnd_ts) ==
    LET phi_1 == s.next_x.val[1]
        t0    == [s EXCEPT !.tested = Append(@, phi_1)]
        \* lines 58-61, with the result of the step of line 56
        Record(ddq, stack, u, step) ==
            IF ~check_matrix_shape(step.next_x, 4, 1)
            THEN [t0 EXCEPT !.ddq_stack = stack, !.computed = Append(@, ddq),
                            !.next_x = step.next_x, !.pc = "raised"]
            ELSE [t0 EXCEPT !.ddq_stack = stack, !.computed = Append(@, ddq),
                            !.next_x = step.next_x,
                            !.time_c = @ + rnd_ts,
                            !.data_stream = Append(@, [ next_x   |-> step.next_x,
                                                        d_next_x |-> step.d_next_x,
                                                        u        |-> u,
                                                        time_c   |-> s.time_c + rnd_ts ]),
                            !.i = @ + 1]
        \* lines 55-56
        Integrate(ddq, stack, u) ==
            Record(ddq, stack, u, num_sim_step_pd_tune(a.sys_consts, s.next_x, u, rnd_ts))
        \* line 53
        Apply(ddq, stack) == Integrate(ddq, stack, ReadDelayed(stack, s.delay_in_frames))
        \* line 52
        Push(ddq) == Apply(ddq, PushDdq(s, ddq))
    IN  IF ExceedsLimit(phi_1, a.max_angle_rad)
        THEN OnDiverge(t0)
        ELSE Push(ControlLaw(a.K_p, a.K_d, s.next_x))

\* Lines 65-66: a run whose flag is still True prints K_p and K_d with the
\* format ".2f", which raises TypeError for a gain that is an array.
FormatRaises(a, s) ==
    s.finish_flag /\ (a.K_p.shape # ScalarShape \/ a.K_d.shape # ScalarShape)

\* Line 72: the returned tuple.
SimResult(a, s) ==
    [ K_p |-> a.K_p, K_d |-> a.K_d, data_stream |-> s.data_stream,
      finish_flag |-> s.finish_flag ]

\* The whole call with the step sizes drawn in jit (one per tick): the locals
\* when the loop is left (pc "loop" with i = n, "after_loop" or "raised").
RECURSIVE RunLoop(_, _, _)
RunLoop(a, s, jit) ==
    IF s.pc = "loop" /\ s.i < s.n
    THEN RunLoop(a, LoopBody(a, s, jit[s.i + 1]), jit)
    ELSE s

\* Lines 35-72 as a function of the arguments and the draws: what the call
\* returns, or the exception it raises.
PD_CL_Simulator(a, jit) ==
    LET Outcome(s) ==
            IF s.pc = "raised"
            THEN [raised |-> TRUE, value |-> "AssertionError"]
            ELSE IF FormatRaises(a, s)
            THEN [raised |-> TRUE, value |-> "TypeError"]
            ELSE [raised |-> FALSE, value |-> SimResult(a, s)]
    IN  Outcome(RunLoop(a, SimLocals(a), jit))

\* Mutant: the integrator updates the state array it was given in place, so
\* the x_0 object of the caller ends as the last state of the run.
ArgsAfterInPlace(a, jit) ==
    [ x_0 |-> RunLoop(a, SimLocals(a), jit).next_x, sys_consts |-> a.sys_consts ]

\* The x_0 and sys_consts objects of the caller after the call: line 39 binds
\* next_x to x_0 and every step returns new arrays (x + dx * dt), so neither
\* object is written.
ArgsAfter(a, jit) ==
    [ x_0 |-> a.x_0, sys_consts |-> a.sys_consts ]

\* The sequences of draws a call with arguments a can make.
JitterDraws(a) == [1..Round(a.run_time, a.Ts) -> JitterChoices(a.Ts)]

-----------------------------------------------------------------------------
(* The scheduler _iterate_in_range and multiprocessing.Pool.map *)

None == [none |-> TRUE]

IsNone(r) == "none" \in DOMAIN r

\* Lines 92-98: the argument tuples, Kp outer, Kd inner.
BuildArgsList(x_0, sys_consts, Kp_phi1_range, Kd_phi1_range, delay, Ts, run_time, max_angle_rad) ==
    LET m == Len(Kp_phi1_range)
        n == Len(Kd_phi1_range)
    IN  [ q \in 1..(m * n) |->
            [ x_0 |-> x_0, sys_consts |-> sys_consts,
              K_p |-> Kp_phi1_range[((q - 1) \div n) + 1],
              K_d |-> Kd_phi1_range[((q - 1) % n) + 1],
              delay |-> delay, Ts |-> Ts, run_time |-> run_time,
              max_angle_rad |-> max_angle_rad,
              total_iterations |-> m * n, iteration |-> q ] ]

\* Line 104: chunk_size = len(args_list) // (usable_cores or 1).
ChunkSize(total, usable_cores) ==
    total \div (IF usable_cores = 0 THEN 1 ELSE usable_cores)

\* Pool._get_tasks: the task indices cut into contiguous batches of size
\* chunksize; no batch at all when chunksize is 0.
GetTasks(total, chunksize) ==
    IF chunksize <= 0 THEN <<>>
    ELSE [ b \in 1..Ceil(total, chunksize) |->
             [ j \in 1..(IF b * chunksize <= total THEN chunksize
                         ELSE total - (b - 1) * chunksize) |->
                 (b - 1) * chunksize + j ] ]

\* MapResult.__init__: a list of None, ready at once when chunksize <= 0.
MapResultInit(chunksize, length) ==
    [ value       |-> [q \in 1..length |-> None],
      success     |-> TRUE,
      exc         |-> "",
      chunksize   |-> chunksize,
      number_left |-> IF chunksize <= 0 THEN 0 ELSE Ceil(length, chunksize),
      ready       |-> chunksize <= 0 ]

\* Mutant: a successful batch is stored behind the results already collected,
\* i.e. in completion order instead of at its own place.
MapResultSetInArrivalOrder(mr, b, success, result) ==
    LET left == mr.number_left - 1
        base == Cardinality({q \in 1..Len(mr.value) : ~IsNone(mr.value[q])})
        r1   == [mr EXCEPT !.number_left = left, !.ready = (left = 0)]
    IN  IF success /\ mr.success
        THEN [r1 EXCEPT !.value =
                 [q \in 1..Len(mr.value) |->
                    IF q > base /\ q <= base + Len(result)
                    THEN result[q - base] ELSE mr.value[q]]]
        ELSE IF ~success /\ mr.success
             THEN [r1 EXCEPT !.success = FALSE, !.exc = result]
             ELSE r1

\* MapResult._set(i, (success, result)) for batch b = i + 1: a successful batch
\* is stored at its own place; the first exception is kept; the result is ready
\* once every batch has reported.
MapResultSet(mr, b, success, result) ==
    LET left == mr.number_left - 1
        base == (b - 1) * mr.chunksize
        r1   == [mr EXCEPT !.number_left = left, !.ready = (left = 0)]
    IN  IF success /\ mr.success
        THEN [r1 EXCEPT !.value =
                 [q \in 1..Len(mr.value) |->
                    IF q > base /\ q <= base + Len(result)
                    THEN result[q - base] ELSE mr.value[q]]]
        ELSE IF ~success /\ mr.success
             THEN [r1 EXCEPT !.success = FALSE, !.exc = result]
             ELSE r1

-----------------------------------------------------------------------------
(* The ranking calc_PD_scores *)

RECURSIVE SumSquares(_)
\* Lines 146-148: the sum of next_x[0][0] ** 2 over the samples.
SumSquares(data_stream) ==
    IF data_stream = <<>> THEN 0
    ELSE LET phi == data_stream[1].next_x.val[1]
         IN  phi * phi + SumSquares(Tail(data_stream))

\* Mutant: the sums compared, not the means.
KeyLessBySum(a, b) == a.num < b.num

\* A quotient num / den of float division, den > 0, kept as the pair.
KeyLess(a, b) == a.num * b.den < b.num * a.den

KeyEq(a, b) == a.num * b.den = b.num * a.den

\* Line 150 and lines 152-162: the scored record of one run.
ScoredRun(run, simTs) ==
    [ Kp_phi1         |-> run.K_p,
      Kd_phi1         |-> run.K_d,
      time            |-> Len(run.data_stream) * simTs,
      finish_flag     |-> run.finish_flag,
      phi1_square_sum |-> [num |-> SumSquares(run.data_stream), den |-> Len(run.data_stream)],
      data_stream     |-> run.data_stream ]

\* Mutant: an unstable insertion, x placed before the entries of equal key.
InsertBeforeEqual(x, s) ==
    LET k == Cardinality({j \in 1..Len(s) : KeyLess(s[j].phi1_square_sum, x.phi1_square_sum)})
    IN  SubSeq(s, 1, k) \o <<x>> \o SubSeq(s, k + 1, Len(s))

\* x inserted into the sorted list s after every entry whose key is <= its own.
InsertByKey(x, s) ==
    LET k == Cardinality({j \in 1..Len(s) : ~KeyLess(x.phi1_square_sum, s[j].phi1_square_sum)})
    IN  SubSeq(s, 1, k) \o <<x>> \o SubSeq(s, k + 1, Len(s))

\* Mutant: the scored runs left in the order they were given.
KeepOrder(s) == s

RECURSIVE Sorted(_)
\* Line 163: sorted(..., key=phi1_square_sum), a stable sort.
Sorted(s) ==
    IF s = <<>> THEN <<>>
    ELSE InsertByKey(s[Len(s)], Sorted(SubSeq(s, 1, Len(s) - 1)))

\* Lines 143-164.  The loop unpacks and scores the runs in order: a None entry
\* raises TypeError, an empty data_stream ZeroDivisionError (line 150).
calc_PD_scores(runs, simTs) ==
    LET bad == {q \in 1..Len(runs) : IsNone(runs[q]) \/ runs[q].data_stream = <<>>}
        first == CHOOSE q \in bad : \A r \in bad : q <= r
    IN  IF bad # {}
        THEN [ raised |-> TRUE,
               value  |-> IF IsNone(runs[first]) THEN "TypeError" ELSE "ZeroDivisionError" ]
        ELSE [ raised |-> FALSE,
               value  |-> Sorted([q \in 1..Len(runs) |-> ScoredRun(runs[q], simTs)]) ]

-----------------------------------------------------------------------------
(* Persistence of a ranking: pickle.dump, pickle.load, and the controller's
   summary table *)

RECURSIVE Gcd(_, _)
Gcd(a, b) == IF b = 0 THEN a ELSE Gcd(b, a % b)

\* Mutant: the metric written without its fractional part.
PickleFloatTruncated(x) == [num |-> x.num \div x.den, den |-> 1]

\* A float is written as the 8 bytes of its value: of the quotient num / den
\* only the value is kept, here the quotient in lowest terms.
PickleFloat(x) ==
    LET g == Gcd(x.num, x.den)
    IN  [num |-> x.num \div g, den |-> x.den \div g]

\* The opcodes pickle.dump writes for one dict of the ranking.
PickleEntry(e) ==
    << [op |-> "EMPTY_DICT"],
       [op |-> "SETITEM", key |-> "Kp_phi1", value |-> e.Kp_phi1],
       [op |-> "SETITEM", key |-> "Kd_phi1", value |-> e.Kd_phi1],
       [op |-> "SETITEM", key |-> "time", value |-> e.time],
       [op |-> "SETITEM", key |-> "finish_flag", value |-> e.finish_flag],
       [op |-> "SETITEM", key |-> "phi1_square_sum", value |-> PickleFloat(e.phi1_square_sum)],
       [op |-> "SETITEM", key |-> "data_stream", value |-> e.data_stream],
       [op |-> "APPEND"] >>

RECURSIVE PickleEntries(_)
PickleEntries(run_struct) ==
    IF run_struct = <<>> THEN <<>>
    ELSE PickleEntry(Head(run_struct)) \o PickleEntries(Tail(run_struct))

\* pickle.dump(run_struct, f) for a list of dicts.
PickleDump(run_struct) ==
    <<[op |-> "EMPTY_LIST"]>> \o PickleEntries(run_struct) \o <<[op |-> "STOP"]>>

RECURSIVE UnpickleFrom(_, _, _, _)
\* The unpickler reading opcode i with the list and the dict under construction.
UnpickleFrom(bytes, i, list, dict) ==
    IF bytes[i].op = "STOP" THEN list
    ELSE IF bytes[i].op = "EMPTY_LIST" THEN UnpickleFrom(bytes, i + 1, <<>>, dict)
    ELSE IF bytes[i].op = "EMPTY_DICT" THEN UnpickleFrom(bytes, i + 1, list, <<>>)
    ELSE IF bytes[i].op = "SETITEM"
    THEN UnpickleFrom(bytes, i + 1, list,
                      [k \in DOMAIN dict \cup {bytes[i].key} |->
                          IF k = bytes[i].key THEN bytes[i].value ELSE dict[k]])
    ELSE UnpickleFrom(bytes, i + 1, Append(list, dict), <<>>)

\* pickle.load(f)
PickleLoad(bytes) == UnpickleFrom(bytes, 1, <<>>, <<>>)

\* PD_Controller.__init__: self.path = PD_tuning_saves / (title + ".pkl")
PathOf(title) == [directory |-> "PD_tuning_saves", name |-> title, suffix |-> ".pkl"]

\* save_runs_to_file: the file at path is created or overwritten.
save_runs_to_file(fs, run_struct, path) ==
    [p \in DOMAIN fs \cup {path} |-> IF p = path THEN PickleDump(run_struct) ELSE fs[p]]

\* load_runs_from_file: open raises FileNotFoundError when there is no file.
load_runs_from_file(fs, path) ==
    IF path \in DOMAIN fs
    THEN [raised |-> FALSE, value |-> PickleLoad(fs[path])]
    ELSE [raised |-> TRUE, value |-> "FileNotFoundError"]

\* _filter_ordered_results: the rows of the summary table.
filter_ordered_results(ordered_runs) ==
    [ i \in 1..Len(ordered_runs) |->
        [ Kp_phi1 |-> ordered_runs[i].Kp_phi1,
          Kd_phi1 |-> ordered_runs[i].Kd_phi1,
          time |-> ordered_runs[i].time,
          finish_flag |-> ordered_runs[i].finish_flag,
          phi1_square_sum |-> ordered_runs[i].phi1_square_sum ] ]

-----------------------------------------------------------------------------
(* Inputs of a run *)

Scalar(v) == [val |-> v, shape |-> ScalarShape]

Column(v) == [val |-> v, shape |-> <<4, 1>>]

\* M_1_data["sys_consts_double"], rounded to integers.
SysConsts == <<18, 1, 2, -74, -5, 3, 1, 3, 1, 10>>

\* X_0 = [[-0.01], [0], [0], [0]]
X_0 == Column(<<-10, 0, 0, 0>>)

InitialStates == {X_0, Column(<<0, 0, 0, 0>>), Column(<<14, 0, 0, 0>>)}

\* Gains: scalars, and one 1-D array (which np.ndarray broadcasting accepts).
KpValues == {Scalar(8), Scalar(30), [val |-> 8, shape |-> <<2>>]}

KdValues == {Scalar(0), Scalar(4)}

SamplePeriods == {2}

AngleLimits == {12, 40}

SimArgs ==
    [ x_0 : InitialStates, sys_consts : {SysConsts}, K_p : KpValues, K_d : KdValues,
      delay : 0..MaxDelay, Ts : SamplePeriods, run_time : 0..MaxRunTime,
      max_angle_rad : AngleLimits, total_iterations : {1}, iteration : {1} ]

-----------------------------------------------------------------------------
(* One simulator run, tick by tick *)

Off == [pc |-> "off"]

SearchOff ==
    /\ inp = <<>>
    /\ search = Off
    /\ pool = <<>>
    /\ running = <<>>
    /\ exec = <<>>

LibOff ==
    /\ files = <<>>
    /\ loader = Off
    /\ app = Off
    /\ ss = Off
    /\ calc = Off

Init ==
    /\ LibOff
    /\ args \in SimArgs
    /\ sim = SimLocals(args)
    /\ SearchOff

\* One iteration of the for loop (lines 45-61).
SimTick ==
    /\ sim.pc = "loop"
    /\ sim.i < sim.n
    /\ \E rnd_ts \in JitterChoices(args.Ts) : sim' = LoopBody(args, sim, rnd_ts)
    /\ UNCHANGED <<args, searchvars, libvars, app>>

\* Lines 63-72: the loop is over (exhausted or left by break); return, or
\* raise from the print of line 66.
SimReturn ==
    /\ \/ sim.pc = "after_loop"
       \/ sim.pc = "loop" /\ sim.i = sim.n
    /\ sim' = [sim EXCEPT !.pc = IF FormatRaises(args, sim) THEN "raised" ELSE "returned"]
    /\ UNCHANGED <<args, searchvars, libvars, app>>

Next == SimTick \/ SimReturn

Spec == Init /\ [][Next]_vars

-----------------------------------------------------------------------------
(* The gain-space search: _iterate_in_range, then calc_PD_scores *)

MaxCores == 3           \* largest worker-pool size tried
MaxSearchTicks == 4     \* largest number of simulated ticks in one search

ArrayGain == [val |-> 8, shape |-> <<2>>]

KpRanges == { <<Scalar(8)>>, <<Scalar(8), Scalar(30)>>, <<ArrayGain, Scalar(30)>> }

KdRanges == { <<Scalar(0)>>, <<Scalar(0), Scalar(4)>> }

\* The searches tried: at most MaxSearchTicks ticks over all tasks of the grid.
SearchInputs ==
    { in \in [ x_0 : InitialStates, sys_consts : {SysConsts},
               Kp_phi1_range : KpRanges, Kd_phi1_range : KdRanges,
               delay : {0, 2}, Ts : SamplePeriods, run_time : {2, 4},
               max_angle_rad : {12}, usable_cores : 1..MaxCores, simTs : {2, 3}, title : {"M_5"} ] :
        Len(in.Kp_phi1_range) * Len(in.Kd_phi1_range) * Round(in.run_time, in.Ts)
            <= MaxSearchTicks }

SearchIdle(in) ==
    /\ inp = in
    /\ search = [ pc |-> "idle", args_list |-> <<>>, results |-> <<>>, ordered_runs |-> <<>>,
                  ordered_results |-> <<>>,
                  calls |-> <<>>, failed |-> {}, draws |-> <<>> ]
    /\ pool = <<>>
    /\ running = <<>>

SearchInit ==
    /\ LibOff
    /\ args = <<>>
    /\ sim = Off
    /\ exec = [count |-> 1, left |-> 0, first |-> <<>>, order |-> <<>>]
    /\ \E in \in SearchInputs : SearchIdle(in)

\* exec.order is a history field, kept only where two executions are compared:
\* the batches of the current execution in the order they reported.
Reported(e, b) ==
    IF e.count + e.left > 1 THEN [e EXCEPT !.order = Append(@, b)] ELSE e

\* Lines 92-105, up to the call of pool.map: the argument list, the pool, the
\* chunk size, and the MapResult of the submitted map.  calls, failed and draws
\* are history fields: how often the simulator was called on each task, the
\* tasks that raised, and the step sizes each task drew.
IterateInRange ==
    /\ search.pc = "idle"
    /\ LET al == BuildArgsList(inp.x_0, inp.sys_consts, inp.Kp_phi1_range, inp.Kd_phi1_range,
                               inp.delay, inp.Ts, inp.run_time, inp.max_angle_rad)
           chunk_size == ChunkSize(Len(al), inp.usable_cores)
       IN  /\ search' = [search EXCEPT !.pc = "map_wait", !.args_list = al,
                                       !.calls = [q \in 1..Len(al) |-> 0],
                                       !.draws = [q \in 1..Len(al) |-> <<>>]]
           /\ pool' = [ batches |-> GetTasks(Len(al), chunk_size), next |-> 1,
                        result |-> MapResultInit(chunk_size, Len(al)) ]
    /\ running' = <<>>
    /\ UNCHANGED <<inp, exec, simvars, libvars, app>>

\* A free worker takes the next batch from the task queue.  The batch is
\* unpickled as one object: its tasks share one x_0 and one sys_consts.
WorkerTake ==
    /\ search.pc = "map_wait"
    /\ pool.next <= Len(pool.batches)
    /\ Cardinality(DOMAIN running) < inp.usable_cores
    /\ running' = [b \in DOMAIN running \cup {pool.next} |->
                     IF b = pool.next
                     THEN [ pos |-> 1, out |-> <<>>,
                            shared |-> [ x_0 |-> search.args_list[pool.batches[b][1]].x_0,
                                         sys_consts |->
                                             search.args_list[pool.batches[b][1]].sys_consts ] ]
                     ELSE running[b]]
    /\ pool' = [pool EXCEPT !.next = @ + 1]
    /\ UNCHANGED <<inp, search, exec, simvars, libvars, app>>

\* The worker holding batch b calls _PD_CL_Simulator on the batch's next task
\* (mapstar).  An exception ends the batch and is reported; the batch's results
\* are reported after its last task.
WorkerRunTask(b) ==
    /\ search.pc = "map_wait"
    /\ b \in DOMAIN running
    /\ LET q == pool.batches[b][running[b].pos]
           a == [search.args_list[q] EXCEPT !.x_0 = running[b].shared.x_0,
                                            !.sys_consts = running[b].shared.sys_consts]
       IN  \E jit \in JitterDraws(a) : \E r \in {PD_CL_Simulator(a, jit)} :
             LET out == Append(running[b].out, r.value)
                 rest == [c \in DOMAIN running \ {b} |-> running[c]]
             IN  /\ search' = [search EXCEPT !.calls[q] = @ + 1,
                                             !.draws[q] = jit,
                                             !.failed = IF r.raised THEN @ \cup {q} ELSE @]
                 /\ IF r.raised
                    THEN /\ pool' = [pool EXCEPT !.result = MapResultSet(@, b, FALSE, r.value)]
                         /\ running' = rest
                         /\ exec' = Reported(exec, b)
                    ELSE IF running[b].pos = Len(pool.batches[b])
                    THEN /\ pool' = [pool EXCEPT !.result = MapResultSet(@, b, TRUE, out)]
                         /\ running' = rest
                         /\ exec' = Reported(exec, b)
                    ELSE /\ pool' = pool
                         /\ running' = [running EXCEPT ![b] = [pos |-> @.pos + 1, out |-> out,
                                                            shared |-> ArgsAfter(a, jit)]]
                         /\ exec' = exec
    /\ UNCHANGED <<inp, simvars, libvars, app>>

\* Lines 105-107: pool.map returns the list once the MapResult is ready, or
\* re-raises the exception it stored; _iterate_in_range has no handler.
MapReturn ==
    /\ search.pc = "map_wait"
    /\ pool.result.ready
    /\ search' = IF pool.result.success
                 THEN [search EXCEPT !.pc = "map_returned", !.results = pool.result.value]
                 ELSE [search EXCEPT !.pc = "map_raised"]
    /\ UNCHANGED <<inp, pool, running, exec, simvars, libvars, app>>

\* generate_optimization after M_data_iterate (lines 56-57): calc_PD_scores,
\* set_ord_runs with the summary table, save_runs_to_file.
CalcScores ==
    /\ search.pc = "map_returned"
    /\ LET r == calc_PD_scores(search.results, inp.simTs)
       IN  IF r.raised
           THEN /\ search' = [search EXCEPT !.pc = "score_raised"]
                /\ files' = files
           ELSE /\ search' = [search EXCEPT !.pc = "scored", !.ordered_runs = r.value,
                                            !.ordered_results = filter_ordered_results(r.value)]
                /\ files' = save_runs_to_file(files, r.value, PathOf(inp.title))
    /\ UNCHANGED <<inp, pool, running, exec, simvars, loader, ss, calc, app>>

SearchNext ==
    \/ IterateInRange
    \/ WorkerTake
    \/ \E b \in DOMAIN running : WorkerRunTask(b)
    \/ MapReturn
    \/ CalcScores

SearchSpec == SearchInit /\ [][SearchNext]_vars

-----------------------------------------------------------------------------
(* Two executions of the search on the same inputs *)

MaxDetTicks == 2        \* largest number of simulated ticks in a search run twice

DetInputs ==
    { in \in SearchInputs :
        Len(in.Kp_phi1_range) * Len(in.Kd_phi1_range) * Round(in.run_time, in.Ts)
            <= MaxDetTicks }

SearchOver == search.pc \in {"map_raised", "score_raised", "scored"}

\* The completion flags of the collected runs.
FinishFlags(results) ==
    [q \in 1..Len(results) |-> IF IsNone(results[q]) THEN None ELSE results[q].finish_flag]

\* What an execution leaves behind, with the draws its tasks made and the
\* order its batches reported in.
ExecOutcome ==
    [ pc |-> search.pc, flags |-> FinishFlags(search.results),
      ordered_runs |-> search.ordered_runs, draws |-> search.draws, order |-> exec.order ]

DetInit ==
    /\ LibOff
    /\ args = <<>>
    /\ sim = Off
    /\ exec = [count |-> 1, left |-> 1, first |-> <<>>, order |-> <<>>]
    /\ \E in \in DetInputs : SearchIdle(in)

\* generate_optimization is called again with the same M_data.
Rerun ==
    /\ SearchOver
    /\ exec.left > 0
    /\ exec' = [count |-> exec.count + 1, left |-> exec.left - 1, first |-> ExecOutcome,
                order |-> <<>>]
    /\ search' = [ pc |-> "idle", args_list |-> <<>>, results |-> <<>>, ordered_runs |-> <<>>,
                  ordered_results |-> <<>>,
                   calls |-> <<>>, failed |-> {}, draws |-> <<>> ]
    /\ pool' = <<>>
    /\ running' = <<>>
    /\ UNCHANGED <<inp, simvars, libvars, app>>

DetNext == SearchNext \/ Rerun

DetSpec == DetInit /\ [][DetNext]_vars

-----------------------------------------------------------------------------
(* Claims about one simulator run (specification Spec) *)

\* C1: the input applied at tick t is the control value computed at tick t - k
\* for t > k (k = delay_in_frames; ticks counted from 1) and 0 before; when
\* ceil(delay / Ts) = 0 the applied input is the one just computed.
C1_DelayedInput ==
    \A t \in 1..Len(sim.data_stream) :
        /\ sim.data_stream[t].u =
               IF t > sim.delay_in_frames
               THEN sim.computed[t - sim.delay_in_frames]
               ELSE Zero
        /\ Ceil(args.delay, args.Ts) = 0 => sim.data_stream[t].u = sim.computed[t]

\* A tick past the zero padding applied a non-zero value that is not its own.
C1_Witness ==
    /\ sim.delay_in_frames > 0
    /\ \E t \in 1..Len(sim.data_stream) :
          /\ t > sim.delay_in_frames
          /\ sim.data_stream[t].u.val # 0
          /\ sim.data_stream[t].u # sim.computed[t]

C3_Classification ==
    /\ sim.i <= sim.n
    /\ Len(sim.data_stream) = sim.i
    /\ sim.pc = "returned" =>
          /\ sim.finish_flag <=> (Len(sim.data_stream) = sim.n)
          /\ sim.finish_flag =>
                /\ Len(sim.tested) = sim.n
                /\ \A j \in 1..Len(sim.tested) : Abs(sim.tested[j]) <= args.max_angle_rad
          /\ ~sim.finish_flag =>
                /\ Len(sim.tested) = Len(sim.data_stream) + 1
                /\ Abs(Last(sim.tested)) > args.max_angle_rad
                /\ \A j \in 1..(Len(sim.tested) - 1) :
                      Abs(sim.tested[j]) <= args.max_angle_rad

\* A run that diverged after at least one integration step and has returned.
C3_Witness ==
    /\ sim.pc = "returned"
    /\ ~sim.finish_flag
    /\ Len(sim.data_stream) > 0
    /\ Len(sim.data_stream) < sim.n

\* C4 as stated: in a run that returns finish_flag True, the initial state and
\* every recorded sample, the last included, satisfy |phi1| <= max_angle.
C4_CompletedWithinLimit ==
    (sim.pc = "returned" /\ sim.finish_flag) =>
        /\ Abs(args.x_0.val[1]) <= args.max_angle_rad
        /\ \A t \in 1..Len(sim.data_stream) :
              Abs(sim.data_stream[t].next_x.val[1]) <= args.max_angle_rad

-----------------------------------------------------------------------------
(* calc_PD_scores on its own: a list of runs ranked, then ranked again after
   the same runs were collected in another order *)

MaxRuns == 3            \* longest list of runs ranked

\* One recorded sample (line 61) with pendulum angle phi.
Sample(phi) ==
    [ next_x |-> Column(<<phi, 0, 0, 0>>), d_next_x |-> Column(<<0, 0, 0, 0>>),
      u |-> Zero, time_c |-> 2 ]

\* Traces with means 9/1 and 13/2, and the empty trace of a run that stopped
\* at its first tick.
Traces == { <<Sample(3)>>, <<Sample(2), Sample(3)>>, <<>> }

\* The _PD_CL_Simulator return values ranked: two gains for every trace.
RunResults ==
    [ K_p : {Scalar(5), Scalar(8)}, K_d : {Scalar(0)}, data_stream : Traces,
      finish_flag : {TRUE} ]

RunLists == UNION { [1..k -> RunResults] : k \in 0..MaxRuns }

RankInit ==
    /\ LibOff
    /\ args = <<>>
    /\ sim = Off
    /\ pool = <<>>
    /\ running = <<>>
    /\ exec = <<>>
    /\ \E runs \in RunLists : inp = [runs |-> runs, simTs |-> 3]
    /\ search = [pc |-> "rank_idle", first |-> <<>>, collected |-> <<>>, second |-> <<>>]

\* calc_PD_scores(M_data_runs, simTs).
Rank ==
    /\ search.pc = "rank_idle"
    /\ search' = [search EXCEPT !.pc = "ranked",
                                !.first = calc_PD_scores(inp.runs, inp.simTs)]
    /\ UNCHANGED <<inp, pool, running, exec, simvars, libvars, app>>

\* calc_PD_scores on the same runs collected in another order.
RankReordered ==
    /\ search.pc = "ranked"
    /\ \E p \in Permutations(1..Len(inp.runs)) :
         LET other == [q \in 1..Len(inp.runs) |-> inp.runs[p[q]]]
         IN  search' = [search EXCEPT !.pc = "reranked", !.collected = other,
                                      !.second = calc_PD_scores(other, inp.simTs)]
    /\ UNCHANGED <<inp, pool, running, exec, simvars, libvars, app>>

RankNext == Rank \/ RankReordered

RankSpec == RankInit /\ [][RankNext]_vars

-----------------------------------------------------------------------------
(* Claims about the search (specification SearchSpec) *)

\* C5 as stated: when a simulation task raises, the sweep is not aborted: the
\* exception does not leave the search, and once the search has returned every
\* task has run once and the result set has an entry for the failed task.
C5_FailureIsolated ==
    (search.pc # "off" /\ search.failed # {}) =>
        /\ search.pc # "map_raised"
        /\ search.pc \in {"map_returned", "scored", "score_raised"} =>
              /\ \A q \in 1..Len(search.args_list) : search.calls[q] = 1
              /\ Len(search.results) = Len(search.args_list)
              /\ \A q \in search.failed : ~IsNone(search.results[q])

\* C6 as stated: the search returns m * n results, the q-th being the
\* RunResult of the q-th pair of the product (Kp outer, Kd inner), produced by
\* one simulator call on that pair.
C6_OneResultPerPair ==
    search.pc = "map_returned" =>
        LET m == Len(inp.Kp_phi1_range)
            n == Len(inp.Kd_phi1_range)
        IN  /\ Len(search.results) = m * n
            /\ \A q \in 1..(m * n) :
                  /\ ~IsNone(search.results[q])
                  /\ search.results[q].K_p = inp.Kp_phi1_range[((q - 1) \div n) + 1]
                  /\ search.results[q].K_d = inp.Kd_phi1_range[((q - 1) % n) + 1]
                  /\ search.calls[q] = 1

\* C8: in the ranking of a search, two entries of equal metric stand in the
\* row-major order (Kp outer, Kd inner) of their gain pairs.
C8_TiesInEnumerationOrder ==
    search.pc = "scored" =>
        LET n == Len(inp.Kd_phi1_range)
            row(e) == CHOOSE a \in 1..Len(inp.Kp_phi1_range) : inp.Kp_phi1_range[a] = e.Kp_phi1
            col(e) == CHOOSE b \in 1..n : inp.Kd_phi1_range[b] = e.Kd_phi1
            place(e) == (row(e) - 1) * n + col(e)
            out == search.ordered_runs
        IN  \A i, j \in 1..Len(out) :
              (i < j /\ out[i].phi1_square_sum.num * out[j].phi1_square_sum.den
                          = out[j].phi1_square_sum.num * out[i].phi1_square_sum.den)
                  => place(out[i]) < place(out[j])

\* A ranking that holds three entries of one metric and an entry of another.
C8_Witness ==
    /\ search.pc = "scored"
    /\ LET out == search.ordered_runs
       IN  /\ \E i, j, k \in 1..Len(out) :
                 /\ i < j /\ j < k
                 /\ KeyEq(out[i].phi1_square_sum, out[j].phi1_square_sum)
                 /\ KeyEq(out[j].phi1_square_sum, out[k].phi1_square_sum)
           /\ \E i, j \in 1..Len(out) : KeyLess(out[i].phi1_square_sum, out[j].phi1_square_sum)

-----------------------------------------------------------------------------
(* Claims about the ranking (specification RankSpec) *)

\* C7: the list calc_PD_scores returns is sorted ascending by metric
\* (metric[i] <= metric[i+1] for adjacent entries) and is a permutation of the
\* runs it was given: as many entries, each run as often as it was given.
C7_SortedPermutation ==
    (search.pc \in {"ranked", "reranked"} /\ ~search.first.raised) =>
        LET out == search.first.value
            runs == inp.runs
            back(e) == [ K_p |-> e.Kp_phi1, K_d |-> e.Kd_phi1,
                         data_stream |-> e.data_stream, finish_flag |-> e.finish_flag ]
        IN  /\ Len(out) = Len(runs)
            /\ \A i \in 1..(Len(out) - 1) :
                  out[i].phi1_square_sum.num * out[i + 1].phi1_square_sum.den
                      <= out[i + 1].phi1_square_sum.num * out[i].phi1_square_sum.den
            /\ \A q \in 1..Len(runs) :
                  Cardinality({i \in 1..Len(out) : back(out[i]) = runs[q]})
                      = Cardinality({r \in 1..Len(runs) : runs[r] = runs[q]})

\* Three runs were ranked and the ranking is not the order they came in.
C7_Witness ==
    /\ search.pc = "ranked"
    /\ ~search.first.raised
    /\ Len(inp.runs) = 3
    /\ \E i \in 1..3 :
          search.first.value[i].Kp_phi1 # inp.runs[i].K_p
       \/ search.first.value[i].data_stream # inp.runs[i].data_stream

\* C9 as stated: the two rankings of the same runs, collected in two orders,
\* are identical.
C9_OrderIndependent ==
    search.pc = "reranked" => search.first = search.second

\* C9, amended: the two rankings raise alike, carry the same metric at every
\* position and hold the same entry wherever that metric belongs to one run
\* only; runs of equal metric stand in the order they were collected in.
C9_SameUpToTies ==
    search.pc = "reranked" =>
        /\ search.first.raised = search.second.raised
        /\ ~search.first.raised =>
              LET one == search.first.value
                  two == search.second.value
                  tied(s, i) == \E j \in 1..Len(s) :
                                   j # i /\ KeyEq(s[i].phi1_square_sum, s[j].phi1_square_sum)
                  scored(rs) == [q \in 1..Len(rs) |-> ScoredRun(rs[q], inp.simTs)]
                  group(s, k) == SelectSeq(s, LAMBDA e : KeyEq(e.phi1_square_sum, k))
              IN  /\ Len(one) = Len(two)
                  /\ \A i \in 1..Len(one) :
                        /\ KeyEq(one[i].phi1_square_sum, two[i].phi1_square_sum)
                        /\ ~tied(one, i) => one[i] = two[i]
                        /\ group(one, one[i].phi1_square_sum)
                               = group(scored(inp.runs), one[i].phi1_square_sum)
                        /\ group(two, one[i].phi1_square_sum)
                               = group(scored(search.collected), one[i].phi1_square_sum)

\* Two runs of equal metric and one of another, collected in two different
\* orders, and the two rankings differ.
C9_Witness ==
    /\ search.pc = "reranked"
    /\ ~search.first.raised
    /\ Len(inp.runs) = 3
    /\ search.collected # inp.runs
    /\ search.first # search.second
    /\ \E i, j \in 1..3 : KeyLess(search.first.value[i].phi1_square_sum,
                                  search.first.value[j].phi1_square_sum)

-----------------------------------------------------------------------------
(* Claims about two executions of the search (specification DetSpec) *)

\* C10 as stated: two executions on the same inputs end with the same
\* completion flags and the same ranking.
C10_SameOutcome ==
    (exec.count = 2 /\ SearchOver) =>
        /\ FinishFlags(search.results) = exec.first.flags
        /\ search.ordered_runs = exec.first.ordered_runs

\* C10, amended: two executions on the same inputs whose tasks drew the same
\* step sizes end alike, with the same completion flags and the same ranking,
\* in whatever order their batches completed.
C10_DeterminedByDraws ==
    (exec.count = 2 /\ SearchOver /\ search.draws = exec.first.draws) =>
        /\ search.pc = exec.first.pc
        /\ FinishFlags(search.results) = exec.first.flags
        /\ search.ordered_runs = exec.first.ordered_runs

\* Both executions ranked two runs with the same draws, not all of them the
\* nominal period, and their batches completed in different orders.
C10_Witness ==
    /\ exec.count = 2
    /\ search.pc = "scored"
    /\ Len(search.ordered_runs) = 2
    /\ search.draws = exec.first.draws
    /\ exec.order # exec.first.order
    /\ \E q \in 1..Len(search.draws) : search.draws[q][1] # inp.Ts

-----------------------------------------------------------------------------
(* Further claims about the search (specification SearchSpec) *)

\* C11 as stated: whatever runs the simulator returned (completed, or diverged
\* at any tick, the first included), calc_PD_scores returns a ranked entry for
\* each of them, carrying the metric (sum of phi1^2) / sample_count.
C11_EveryRunRanked ==
    (search.pc \in {"scored", "score_raised"}
        /\ \A q \in 1..Len(search.results) : ~IsNone(search.results[q])) =>
        /\ search.pc = "scored"
        /\ Len(search.ordered_runs) = Len(search.results)
        /\ \A i \in 1..Len(search.ordered_runs) :
              /\ search.ordered_runs[i].phi1_square_sum.den
                     = Len(search.ordered_runs[i].data_stream)
              /\ search.ordered_runs[i].phi1_square_sum.den > 0

\* C12 as stated: the time of every ranked entry is the elapsed simulated time
\* of its run, the sum of the step sizes its ticks used, which is the time_c of
\* the last sample of its trace.
C12_TimeIsElapsed ==
    search.pc = "scored" =>
        \A i \in 1..Len(search.ordered_runs) :
            search.ordered_runs[i].time =
                IF search.ordered_runs[i].data_stream = <<>> THEN 0
                ELSE Last(search.ordered_runs[i].data_stream).time_c

\* C13 as stated: every run of a search has the lag round(delay / simTs) and
\* the tick count round(run_time / simTs) of the search's configuration.
C13_LagAndTicksFromSimTs ==
    search.pc \notin {"off", "idle"} =>
        \A q \in 1..Len(search.args_list) :
            /\ SimLocals(search.args_list[q]).delay_in_frames = Round(inp.delay, inp.simTs)
            /\ SimLocals(search.args_list[q]).n = Round(inp.run_time, inp.simTs)

\* C14 as stated: the task list is cut into contiguous chunks of size
\* ceil(total / pool_size).
C14_CeilingChunks ==
    search.pc \notin {"off", "idle"} =>
        LET total == Len(search.args_list)
            size  == (total + inp.usable_cores - 1) \div inp.usable_cores
        IN  /\ pool.result.chunksize = size
            /\ \A q \in 1..total :
                  \E b \in 1..Len(pool.batches) :
                      /\ (q - 1) \div size = b - 1
                      /\ \E j \in 1..Len(pool.batches[b]) : pool.batches[b][j] = q

-----------------------------------------------------------------------------
(* Saving a ranking and loading it into another controller *)

Titles == {"M_1", "M_5"}

\* M_data_iterate has returned the raw results of a controller titled
\* inp.title; another controller, titled loader.title, has been constructed.
SnapInit ==
    /\ args = <<>>
    /\ sim = Off
    /\ pool = <<>>
    /\ running = <<>>
    /\ exec = <<>>
    /\ files = <<>>
    /\ ss = Off
    /\ calc = Off
    /\ app = Off
    /\ \E title \in Titles : inp = [simTs |-> 3, title |-> title]
    /\ \E runs \in RunLists :
         search = [ pc |-> "map_returned", args_list |-> <<>>, results |-> runs,
                    ordered_runs |-> <<>>, ordered_results |-> <<>>,
                    calls |-> <<>>, failed |-> {}, draws |-> <<>> ]
    /\ \E title \in Titles :
         loader = [ pc |-> "idle", title |-> title, ordered_runs |-> <<>>,
                    ordered_results |-> <<>> ]

\* PD_Controller.load_from_pkl_file: load_runs_from_file, then set_ord_runs
\* with the summary table.
LoadFromPkl ==
    /\ loader.pc = "idle"
    /\ LET r == load_runs_from_file(files, PathOf(loader.title))
       IN  loader' = IF r.raised
                     THEN [loader EXCEPT !.pc = "load_raised"]
                     ELSE [loader EXCEPT !.pc = "loaded", !.ordered_runs = r.value,
                                         !.ordered_results = filter_ordered_results(r.value)]
    /\ UNCHANGED <<inp, search, pool, running, exec, simvars, files, ss, calc, app>>

SnapNext == CalcScores \/ LoadFromPkl

SnapSpec == SnapInit /\ [][SnapNext]_vars

-----------------------------------------------------------------------------
(* One integrator step on its own: rk4_step (numsim_steps.py) with a given
   derivative function, and num_sim_step_pd_tune *)

\* The derivative functions rk4_step is tried with: constantly zero,
\* constantly one unit per second in every component, and the plant.
DerivFns == {"zero", "unit", "plant"}

\* f(sys_consts, y, u)
ApplyDeriv(f, sys_consts, y, u) ==
    IF f = "zero" THEN <<0, 0, 0, 0>>
    ELSE IF f = "unit" THEN <<6, 6, 6, 6>>
    ELSE mov_eqn_double_pendulum(sys_consts, y, u)

\* Mutant: the increment returned in place of the new state.
rk4_step_increment_only(f, sys_consts, x, u, dt) ==
    LET k == ApplyDeriv(f, sys_consts, x[1], u)
    IN  [ next_x |-> [j \in 1..4 |-> Quot(k[j] * dt, TimeDen)], dx |-> k ]

\* rk4_step(f, sys_consts, x, u, dt); x[0], here x[1], is the state.
rk4_step(f, sys_consts, x, u, dt) ==
    LET phi_frame_array == x[1]
        \* return phi_frame_array + dx * dt, dx
        Result(dx) == [ next_x |-> AddScaled(phi_frame_array, dx, dt, TimeDen), dx |-> dx ]
        \* dx = (k1 + 2 * k2 + 2 * k3 + k4) / 6.0
        WithK4(k1, k2, k3, k4) ==
            Result([j \in 1..4 |-> Quot(k1[j] + 2 * k2[j] + 2 * k3[j] + k4[j], 6)])
        \* k4 = f(sys_consts, phi_frame_array + k3 * dt, u)
        WithK3(k1, k2, k3) ==
            WithK4(k1, k2, k3,
                   ApplyDeriv(f, sys_consts, AddScaled(phi_frame_array, k3, dt, TimeDen), u))
        \* k3 = f(sys_consts, phi_frame_array + 0.5 * k2 * dt, u)
        WithK2(k1, k2) ==
            WithK3(k1, k2,
                   ApplyDeriv(f, sys_consts, AddScaled(phi_frame_array, k2, dt, 2 * TimeDen), u))
        \* k2 = f(sys_consts, phi_frame_array + 0.5 * k1 * dt, u)
        WithK1(k1) ==
            WithK2(k1,
                   ApplyDeriv(f, sys_consts, AddScaled(phi_frame_array, k1, dt, 2 * TimeDen), u))
    IN  \* k1 = f(sys_consts, phi_frame_array, u)
        WithK1(ApplyDeriv(f, sys_consts, phi_frame_array, u))

StepStates == { <<0, 0, 0, 0>>, <<-10, 0, 0, 0>>, <<14, 3, -2, 5>> }

StepSizes == {-2, 0, 1, 2, 3}

StepInputs ==
    [ f : DerivFns, sys_consts : {SysConsts}, x : StepStates, u : {0, 5}, dt : StepSizes ]

RkInit ==
    /\ args = <<>>
    /\ sim = Off
    /\ search = Off
    /\ pool = <<>>
    /\ running = <<>>
    /\ exec = <<>>
    /\ files = <<>>
    /\ loader = Off
    /\ app = Off
    /\ ss = Off
    /\ calc = [pc |-> "idle"]
    /\ inp \in StepInputs

\* rk4_step(f, sys_consts, (x, ...), u, dt) is called and returns.
Rk4Step ==
    /\ calc.pc = "idle"
    /\ LET r == rk4_step(inp.f, inp.sys_consts, <<inp.x>>, inp.u, inp.dt)
       IN  calc' = [pc |-> "returned", fn |-> "rk4_step", next_x |-> r.next_x, dx |-> r.dx]
    /\ UNCHANGED <<inp, search, pool, running, exec, simvars, files, loader, ss, app>>

\* num_sim_step_pd_tune(sys_consts, x, u, dt) is called and returns.
NumSimStep ==
    /\ calc.pc = "idle"
    /\ LET r == num_sim_step_pd_tune(inp.sys_consts, Column(inp.x), Scalar(inp.u), inp.dt)
       IN  calc' = [ pc |-> "returned", fn |-> "num_sim_step_pd_tune",
                     next_x |-> r.next_x.val, dx |-> r.d_next_x.val ]
    /\ UNCHANGED <<inp, search, pool, running, exec, simvars, files, loader, ss, app>>

RkNext == Rk4Step \/ NumSimStep

RkSpec == RkInit /\ [][RkNext]_vars

\* C17: for every state and every non-zero dt, a step of rk4_step with the
\* constantly zero derivative function returns the state it was given and a
\* zero state change; so does num_sim_step_pd_tune wherever the plant's
\* derivative is zero.
C17_ZeroDynamics ==
    (calc.pc = "returned" /\ inp.dt # 0
        /\ \/ calc.fn = "rk4_step" /\ inp.f = "zero"
           \/ /\ calc.fn = "num_sim_step_pd_tune"
              /\ mov_eqn_double_pendulum(inp.sys_consts, inp.x, inp.u) = <<0, 0, 0, 0>>) =>
        /\ calc.next_x = inp.x
        /\ calc.dx = <<0, 0, 0, 0>>

\* rk4_step has returned from a step of non-zero size on a non-zero state with
\* the zero derivative function.
C17_Witness ==
    /\ calc.pc = "returned"
    /\ calc.fn = "rk4_step"
    /\ inp.f = "zero"
    /\ inp.dt # 0
    /\ inp.x # <<0, 0, 0, 0>>

-----------------------------------------------------------------------------
(* The state_space object (state_space.py): construction and
   update_system_constants.  A number v is the record Num(v), so that it can
   stand where None can; the constants are kept in twelfths. *)

Num(v) == [val |-> v]

\* calculate_system_constants_single(rho, L1, g), times 12
calculate_system_constants_single(rho, L1, g) ==
    [ C1 |-> Num(Quot(18, L1.val)), C2 |-> Num(Quot(18 * g.val, L1.val)),
      C3 |-> None, C4 |-> None, C5 |-> None,
      m1 |-> Num(L1.val * rho.val), m2 |-> None, l1 |-> L1, l2 |-> None, g |-> g ]

\* calculate_system_constants_double(rho1, rho2, l1, l2, g), C1..C5 times 12
calculate_system_constants_double(rho1, rho2, l1, l2, g) ==
    LET m1 == l1.val * rho1.val
        m2 == l2.val * rho2.val
    IN  [ C1 |-> Num(m1 * l1.val * l1.val + l1.val * l1.val * (3 * m1 + 12 * m2)),
          C2 |-> Num(m2 * l2.val * l2.val + l2.val * l2.val * 3 * m2),
          C3 |-> Num(6 * l1.val * l2.val * m2),
          C4 |-> Num(-g.val * l1.val * (6 * m1 + 12 * m2)),
          C5 |-> Num(-6 * g.val * l2.val * m2),
          m1 |-> Num(m1), m2 |-> Num(m2), l1 |-> l1, l2 |-> l2, g |-> g ]

\* state_space.__init__: the mode as configured, no constants yet.
state_space_init(double_pendulum) ==
    [ double_pendulum |-> double_pendulum,
      rho1 |-> None, rho2 |-> None, l1 |-> None, l2 |-> None, g |-> None,
      C1 |-> None, C2 |-> None, C3 |-> None, C4 |-> None, C5 |-> None,
      m1 |-> None, m2 |-> None, A_lin |-> None ]

\* _update_sys_consts with _update__lin_sys_matrices: the constants of the
\* current mode; A_lin is computed in double mode only and is named here by
\* the constants it was computed from.
update_sys_consts(s) ==
    LET c == IF s.double_pendulum
             THEN calculate_system_constants_double(s.rho1, s.rho2, s.l1, s.l2, s.g)
             ELSE calculate_system_constants_single(s.rho1, s.l1, s.g)
    IN  [ s EXCEPT !.C1 = c.C1, !.C2 = c.C2, !.C3 = c.C3, !.C4 = c.C4, !.C5 = c.C5,
                   !.m1 = c.m1, !.m2 = c.m2, !.l1 = c.l1, !.l2 = c.l2, !.g = c.g,
                   !.A_lin = IF s.double_pendulum THEN [from |-> c] ELSE @ ]

\* update_system_constants(rho1, rho2, l1, l2, g): the mode is switched to
\* single when l2 is None or 0 and otherwise left as it is.
update_system_constants(s, rho1, rho2, l1, l2, g) ==
    update_sys_consts(
        [ s EXCEPT !.double_pendulum = IF IsNone(l2) \/ l2 = Num(0) THEN FALSE ELSE @,
                   !.rho1 = rho1, !.rho2 = rho2, !.l1 = l1, !.l2 = l2, !.g = g ])

Densities == {Num(1), Num(2)}

RodLengths == {Num(1), Num(2), Num(3)}

SecondRodLengths == {None, Num(0), Num(1), Num(2)}

SsInit ==
    /\ args = <<>>
    /\ sim = Off
    /\ SearchOff
    /\ files = <<>>
    /\ loader = Off
    /\ app = Off
    /\ calc = [pc |-> "idle"]
    /\ \E double_pendulum \in BOOLEAN : ss = state_space_init(double_pendulum)

\* A call of update_system_constants; calc keeps the l2 it was called with.
UpdateSystemConstants ==
    /\ ss # Off
    /\ \E rho1 \in Densities, rho2 \in Densities, l1 \in RodLengths, l2 \in SecondRodLengths :
         /\ ss' = update_system_constants(ss, rho1, rho2, l1, l2, Num(10))
         /\ calc' = [pc |-> "returned", fn |-> "update_system_constants", l2 |-> l2]
    /\ UNCHANGED <<inp, search, pool, running, exec, simvars, files, loader, app>>

SsNext == UpdateSystemConstants

SsSpec == SsInit /\ [][SsNext]_vars

\* C18 as stated: after every call of update_system_constants the model is in
\* double-pendulum mode if and only if the l2 of the call is present and
\* nonzero.
C18_ModeFollowsL2 ==
    calc.pc = "returned" =>
        (ss.double_pendulum <=> (~IsNone(calc.l2) /\ calc.l2 # Num(0)))

-----------------------------------------------------------------------------
(* Delay-augmented models of the synthesis code: _extend_with_delay
   (h_inf_delay.py), the model built by _dlqr_delay_compensation (lqr_delay.py)
   and the one built by compute_h_infinity_discrete (h_inf.py).
   A matrix is [r, c, e]: r rows, c columns, e[i][j] its entries. *)

MaxDelaySteps == 3      \* largest delay_steps tried

Matrix(r, c, e) == [r |-> r, c |-> c, e |-> e]

\* np.zeros((r, c))
Zeros(r, c) == Matrix(r, c, [i \in 1..r |-> [j \in 1..c |-> 0]])

\* np.eye(r, c)
Eye(r, c) == Matrix(r, c, [i \in 1..r |-> [j \in 1..c |-> IF i = j THEN 1 ELSE 0]])

\* The bound of a slice on an axis of length len: a negative bound counts from
\* the end, and every bound is clipped to the axis.
SliceBound(k, len) ==
    IF k < 0 THEN Max(len + k, 0) ELSE IF k > len THEN len ELSE k

\* M[r0:r1, c0:c1] = blk.  The block must have the shape of the slice, an axis
\* of length 1 being stretched to the slice's (also to length 0); otherwise
\* numpy raises ValueError.
AssignSlice(M, r0, r1, c0, c1, blk) ==
    LET rlo == SliceBound(r0, M.r)
        rhi == Max(SliceBound(r1, M.r), rlo)
        clo == SliceBound(c0, M.c)
        chi == Max(SliceBound(c1, M.c), clo)
    IN  IF (blk.r # rhi - rlo /\ blk.r # 1) \/ (blk.c # chi - clo /\ blk.c # 1)
        THEN [raised |-> TRUE, value |-> "ValueError"]
        ELSE [ raised |-> FALSE,
               value  |-> Matrix(M.r, M.c,
                   [ i \in 1..M.r |-> [ j \in 1..M.c |->
                       IF i > rlo /\ i <= rhi /\ j > clo /\ j <= chi
                       THEN blk.e[IF blk.r = 1 THEN 1 ELSE i - rlo]
                                 [IF blk.c = 1 THEN 1 ELSE j - clo]
                       ELSE M.e[i][j] ] ]) ]

\* The pair returned by a builder, or the exception it raised.
Built(a, b) ==
    IF a.raised THEN [raised |-> TRUE, value |-> a.value]
    ELSE IF b.raised THEN [raised |-> TRUE, value |-> b.value]
    ELSE [raised |-> FALSE, A |-> a.value, B |-> b.value]

\* if delay_steps > 1: A[n:n+(d-1)m, n+m:n+d*m] = np.eye((d-1)*m)
ShiftBlock(A, n_states, n_inputs, delay_steps) ==
    IF delay_steps > 1 /\ ~A.raised
    THEN AssignSlice(A.value, n_states, n_states + (delay_steps - 1) * n_inputs,
                     n_states + n_inputs, n_states + delay_steps * n_inputs,
                     Eye((delay_steps - 1) * n_inputs, (delay_steps - 1) * n_inputs))
    ELSE A

\* B[n + (d-1)*m:, :] = np.eye(m) on np.zeros((total, m))
InputBlock(n_states, n_inputs, delay_steps) ==
    LET total_states == n_states + delay_steps * n_inputs
    IN  AssignSlice(Zeros(total_states, n_inputs),
                    n_states + (delay_steps - 1) * n_inputs, total_states, 0, n_inputs,
                    Eye(n_inputs, n_inputs))

\* A[:n, n:n+m] = B_d
DriveBlock(A, B_d, n_states, n_inputs) ==
    IF A.raised THEN A
    ELSE AssignSlice(A.value, 0, n_states, n_states, n_states + n_inputs, B_d)

\* _extend_with_delay(A_d, B_d, delay_steps)
extend_with_delay(A_d, B_d, delay_steps) ==
    LET n_states == A_d.r
        n_inputs == B_d.c
        total_states == n_states + delay_steps * n_inputs
        A0 == AssignSlice(Zeros(total_states, total_states), 0, n_states, 0, n_states, A_d)
    IN  Built(ShiftBlock(DriveBlock(A0, B_d, n_states, n_inputs),
                         n_states, n_inputs, delay_steps),
              InputBlock(n_states, n_inputs, delay_steps))

\* _dlqr_delay_compensation, lines 20-36: A_delay and B_delay.
dlqr_delay_model(A_d, B_d, delay_steps) ==
    LET n_states == A_d.r
        n_inputs == B_d.c
        total_states == n_states + delay_steps * n_inputs
        A0 == AssignSlice(Zeros(total_states, total_states), 0, n_states, 0, n_states, A_d)
    IN  Built(IF delay_steps > 0
              THEN ShiftBlock(DriveBlock(A0, B_d, n_states, n_inputs),
                              n_states, n_inputs, delay_steps)
              ELSE A0,
              InputBlock(n_states, n_inputs, delay_steps))

\* compute_h_infinity_discrete, lines 216-238: A_d_ext and B_d_ext from the
\* discretized pair.  delay_steps = int(delay / T_s); B_d @ C_delay and
\* B_d @ np.zeros((1, 1)) need a single input column.
h_infinity_discrete_model(A_d, B_d, T_s, delay) ==
    LET delay_steps == Quot(delay, T_s)
        n == A_d.r
    IN  IF delay_steps > 0
        THEN IF B_d.c # 1
             THEN [raised |-> TRUE, value |-> "ValueError"]
             ELSE [ raised |-> FALSE,
                    A |-> Matrix(n + delay_steps, n + delay_steps,
                            [ i \in 1..(n + delay_steps) |-> [ j \in 1..(n + delay_steps) |->
                                IF i <= n /\ j <= n THEN A_d.e[i][j]
                                ELSE IF i <= n
                                THEN (IF j = n + delay_steps THEN B_d.e[i][1] ELSE 0)
                                ELSE IF j <= n THEN 0
                                ELSE Eye(delay_steps, delay_steps).e[i - n][j - n] ] ]),
                    B |-> Matrix(n + delay_steps, 1,
                            [ i \in 1..(n + delay_steps) |-> [ j \in 1..1 |->
                                IF i <= n THEN 0 ELSE Eye(delay_steps, 1).e[i - n][j] ] ]) ]
        ELSE [raised |-> FALSE, A |-> A_d, B |-> B_d]

\* The discrete pairs tried: one or two states, one or two inputs.
SystemMatrices ==
    { Matrix(1, 1, <<<<2>>>>), Matrix(2, 2, <<<<2, 3>>, <<4, 5>>>>),
      Matrix(2, 2, <<<<1, 0>>, <<7, 1>>>>) }

InputMatrices ==
    { Matrix(1, 1, <<<<6>>>>), Matrix(2, 1, <<<<6>>, <<7>>>>), Matrix(2, 1, <<<<0>>, <<1>>>>),
      Matrix(1, 2, <<<<6, 8>>>>), Matrix(2, 2, <<<<6, 8>>, <<7, 9>>>>) }

AugInputs ==
    { in \in [ A_d : SystemMatrices, B_d : InputMatrices, delay_steps : 0..MaxDelaySteps,
               T_s : {1, 2} ] : in.A_d.r = in.B_d.r }

AugInit ==
    /\ args = <<>>
    /\ sim = Off
    /\ search = Off
    /\ pool = <<>>
    /\ running = <<>>
    /\ exec = <<>>
    /\ files = <<>>
    /\ loader = Off
    /\ app = Off
    /\ ss = Off
    /\ calc = [pc |-> "idle"]
    /\ inp \in AugInputs

\* _extend_with_delay(A_d, B_d, delay_steps) is called.
ExtendWithDelay ==
    /\ calc.pc = "idle"
    /\ calc' = [ pc |-> "returned", fn |-> "_extend_with_delay",
                 r |-> extend_with_delay(inp.A_d, inp.B_d, inp.delay_steps) ]
    /\ UNCHANGED <<inp, search, pool, running, exec, simvars, files, loader, ss, app>>

\* _dlqr_delay_compensation builds its delay model.
DlqrDelayModel ==
    /\ calc.pc = "idle"
    /\ calc' = [ pc |-> "returned", fn |-> "_dlqr_delay_compensation",
                 r |-> dlqr_delay_model(inp.A_d, inp.B_d, inp.delay_steps) ]
    /\ UNCHANGED <<inp, search, pool, running, exec, simvars, files, loader, ss, app>>

\* compute_h_infinity_discrete builds its delay model, for a delay of
\* delay_steps sample periods.
HInfinityDiscreteModel ==
    /\ calc.pc = "idle"
    /\ calc' = [ pc |-> "returned", fn |-> "compute_h_infinity_discrete",
                 r |-> h_infinity_discrete_model(inp.A_d, inp.B_d, inp.T_s,
                                                 inp.delay_steps * inp.T_s) ]
    /\ UNCHANGED <<inp, search, pool, running, exec, simvars, files, loader, ss, app>>

AugNext == ExtendWithDelay \/ DlqrDelayModel \/ HInfinityDiscreteModel

AugSpec == AugInit /\ [][AugNext]_vars

\* C19 as stated: for delay_steps d >= 1 each of the three builders returns a
\* model of dimension n + d * m that is a shift register on the delay states:
\* the physical rows are [A_d, B_d, 0] (driven by the oldest delay state),
\* every delay state but the last takes the value of the next one through an
\* identity block, and the last takes the input.
C19_ShiftRegister ==
    (calc.pc = "returned" /\ inp.delay_steps >= 1) =>
        LET n == inp.A_d.r
            m == inp.B_d.c
            d == inp.delay_steps
        IN  /\ ~calc.r.raised
            /\ calc.r.A.r = n + d * m /\ calc.r.A.c = n + d * m
            /\ calc.r.B.r = n + d * m /\ calc.r.B.c = m
            /\ \A i \in 1..(n + d * m) :
                  /\ \A j \in 1..(n + d * m) :
                        calc.r.A.e[i][j] =
                            IF i <= n
                            THEN (IF j <= n THEN inp.A_d.e[i][j]
                                  ELSE IF j <= n + m THEN inp.B_d.e[i][j - n] ELSE 0)
                            ELSE (IF j = i + m THEN 1 ELSE 0)
                  /\ \A k \in 1..m :
                        calc.r.B.e[i][k] = IF i = n + (d - 1) * m + k THEN 1 ELSE 0

\* C20 as stated: for delay_steps = 0 the models of _dlqr_delay_compensation
\* and _extend_with_delay are the base model: A = A_d and B = B_d.
C20_NoDelayIsBase ==
    (calc.pc = "returned" /\ inp.delay_steps = 0
        /\ calc.fn \in {"_dlqr_delay_compensation", "_extend_with_delay"}) =>
        /\ ~calc.r.raised
        /\ calc.r.A = inp.A_d
        /\ calc.r.B = inp.B_d

-----------------------------------------------------------------------------
(* Delay-aware synthesis: lqr_delay_K_calc (lqr_delay.py), h_inf_delay_K_calc
   (h_inf_delay.py) and compute_h_infinity_discrete (h_inf.py).
   The entries of a Riccati solution are not computed: the solver either
   raises or returns a solution, and a gain is known by its rows and by the
   augmented-state columns it keeps.  Cost matrices are diagonal, as np.diag
   builds them, so that their eigenvalues are their diagonal entries. *)

MaxSynDelay == 4        \* largest delay of a synthesis call, in time units

\* The outcome of a call: a returned value or an exception, the lines it
\* printed, whether solve_discrete_are was invoked, and the error raised
\* inside the routine the call wraps ("" if none).
Returned(value, printed, solved, inner) ==
    [ raised |-> FALSE, exc |-> "", msg |-> "", value |-> value,
      printed |-> printed, solved |-> solved, inner |-> inner ]

Raised(exc, msg, printed, solved, inner) ==
    [ raised |-> TRUE, exc |-> exc, msg |-> msg, value |-> None,
      printed |-> printed, solved |-> solved, inner |-> inner ]

\* expm of the block matrix [[A, B], [0, 0]] * T_s, to first order in T_s:
\* A_d = I + A * T_s and B_d = B * T_s.  Shapes are those of A and B.
continuous_to_discrete(A, B, T_s) ==
    [ A_d |-> Matrix(A.r, A.c, [i \in 1..A.r |-> [j \in 1..A.c |->
                    (IF i = j THEN 1 ELSE 0) + A.e[i][j] * T_s]]),
      B_d |-> Matrix(B.r, B.c, [i \in 1..B.r |-> [j \in 1..B.c |-> B.e[i][j] * T_s]]) ]

\* int(np.ceil(delay / T_s))
calculate_delay_steps(delay, T_s) == Ceil(delay, T_s)

\* np.linalg.eigvals of a diagonal matrix.
Eigvals(M) == { M.e[i][i] : i \in 1..M.r }

\* A gain with rows rows that multiplies the augmented states cols.
Gain(rows, cols) == [gain |-> TRUE, r |-> rows, cols |-> cols]

\* K[:, :k]
GainColumns(K, k) ==
    Gain(K.r, SubSeq(K.cols, 1, IF k < Len(K.cols) THEN k ELSE Len(K.cols)))

\* inv(...) @ (B.T @ P @ A): one row per input, one column per state of A.
FullGain(A, B) == Gain(B.c, [k \in 1..A.c |-> k])

\* _dlqr_delay_compensation(A_d, B_d, Q, R, delay_steps); are is what
\* solve_discrete_are does when it is called.
dlqr_delay_compensation(A_d, B_d, Q, R, delay_steps, are) ==
    LET n_states == A_d.r
        n_inputs == B_d.c
        total_states == n_states + delay_steps * n_inputs
        model == dlqr_delay_model(A_d, B_d, delay_steps)
        Q_extended == AssignSlice(Zeros(total_states, total_states), 0, n_states, 0, n_states, Q)
    IN  IF model.raised THEN Raised("ValueError", "could not broadcast", <<>>, FALSE, "")
        ELSE IF Q_extended.raised THEN Raised("ValueError", "could not broadcast", <<>>, FALSE, "")
        ELSE IF \E v \in Eigvals(Q_extended.value) : v < 0
        THEN Raised("ValueError", "Q_extended is not positive semi-definite.", <<>>, FALSE, "")
        ELSE IF \E v \in Eigvals(R) : v <= 0
        THEN Raised("ValueError", "R is not positive definite.", <<>>, FALSE, "")
        ELSE IF are = "fails"
        THEN Raised("ValueError", "Riccati equation solver failed", <<>>, TRUE, "LinAlgError")
        ELSE Returned(GainColumns(FullGain(model.A, model.B), n_states), <<>>, TRUE, "")

\* lqr_delay_K_calc(A, B, Q, R, T_s, delay).  A ValueError of the inner
\* routine is printed, and return K then finds K unbound.
lqr_delay_K_calc(A, B, Q, R, T_s, delay, are) ==
    LET d == continuous_to_discrete(A, B, T_s)
        delay_steps == calculate_delay_steps(delay, T_s)
        Q1 == IF IsNone(Q) THEN Eye(4, 4) ELSE Q
        R1 == IF IsNone(R) THEN Matrix(1, 1, <<<<1>>>>) ELSE R
        Finish(k) ==
            IF k.raised
            THEN Raised("UnboundLocalError", "cannot access local variable 'K'",
                        <<"Error: " \o k.msg>>, k.solved, k.exc)
            ELSE Returned(k.value, <<"LQR Gain Matrix (K):">>, k.solved, "")
    IN  Finish(dlqr_delay_compensation(d.A_d, d.B_d, Q1, R1, delay_steps, are))

\* The performance weights of h_inf_delay_K_calc, times 1000.
PerformanceWeights == Matrix(2, 4, <<<<10, 0, 0, 0>>, <<0, 1, 0, 0>>>>)

\* _extend_C(C, A_ext_shape, original_state_dim)
extend_C(C, total_states, original_state_dim) ==
    AssignSlice(Zeros(C.r, total_states), 0, C.r, 0, original_state_dim, C)

\* _h_infinity_control(A_d, B_d, C, gamma)
h_infinity_control(A_d, B_d, C, are) ==
    IF are = "fails"
    THEN Raised("ValueError", "H-infinity Riccati equation solver failed", <<>>, TRUE,
                "LinAlgError")
    ELSE Returned(GainColumns(FullGain(A_d, B_d), 4), <<>>, TRUE, "")

\* h_inf_delay_K_calc(A, B, gamma, T_s, delay).  Only the call of
\* _h_infinity_control stands in the try block.
h_inf_delay_K_calc(A, B, T_s, delay, are) ==
    LET d == continuous_to_discrete(A, B, T_s)
        delay_steps == calculate_delay_steps(delay, T_s)
        ext == extend_with_delay(d.A_d, d.B_d, delay_steps)
        Finish(k) ==
            IF k.raised
            THEN Returned(None, <<"Error: " \o k.msg>>, k.solved, k.exc)
            ELSE Returned(k.value, <<"Relevant H-infinity Gain Matrix (K):">>, k.solved, "")
        Control(C_ext) ==
            IF C_ext.raised THEN Raised("ValueError", "could not broadcast", <<>>, FALSE, "")
            ELSE Finish(h_infinity_control(ext.A, ext.B, C_ext.value, are))
    IN  IF ext.raised THEN Raised("ValueError", "could not broadcast", <<>>, FALSE, "")
        ELSE Control(extend_C(PerformanceWeights, ext.A.r, d.A_d.r))

\* compute_h_infinity_discrete(A, B, C, gamma, T_s, delay): no try block, the
\* full gain is returned.
compute_h_infinity_discrete(A, B, T_s, delay, are) ==
    LET d == continuous_to_discrete(A, B, T_s)
        model == h_infinity_discrete_model(d.A_d, d.B_d, T_s, delay)
    IN  IF model.raised THEN Raised("ValueError", "matmul: shape mismatch", <<>>, FALSE, "")
        ELSE IF are = "fails"
        THEN Raised("LinAlgError", "Failed to find a finite solution.",
                    <<"Q positive definite:", "R positive definite:">>, TRUE, "LinAlgError")
        ELSE Returned(FullGain(model.A, model.B),
                      <<"Q positive definite:", "R positive definite:">>, TRUE, "")

\* np.diag(v)
Diag(v) == Matrix(Len(v), Len(v), [i \in 1..Len(v) |-> [j \in 1..Len(v) |->
                IF i = j THEN v[i] ELSE 0]])

\* Linearized pendulum pairs: four states, one input.
PlantMatrices ==
    { Matrix(4, 4, <<<<0, 0, 1, 0>>, <<0, 0, 0, 1>>, <<3, -1, 0, 0>>, <<-2, 2, 0, 0>>>>),
      Matrix(4, 4, <<<<0, 0, 1, 0>>, <<0, 0, 0, 1>>, <<1, 0, 0, 0>>, <<0, 1, 0, 0>>>>) }

PlantInputs ==
    { Matrix(4, 1, <<<<0>>, <<0>>, <<1>>, <<-2>>>>), Matrix(4, 1, <<<<0>>, <<0>>, <<0>>, <<1>>>>) }

StateCosts ==
    { Diag(<<1, 1, 1, 1>>), Diag(<<2, 0, 1, 0>>), Diag(<<1, -1, 0, 0>>), None }

ControlCosts == { Diag(<<1>>), Diag(<<0>>), Diag(<<-2>>), None }

SynInputs ==
    [ A : PlantMatrices, B : PlantInputs, Q : StateCosts, R : ControlCosts,
      T_s : {1, 2}, delay : 0..MaxSynDelay, are : {"solves", "fails"} ]

SynInit ==
    /\ args = <<>>
    /\ sim = Off
    /\ search = Off
    /\ pool = <<>>
    /\ running = <<>>
    /\ exec = <<>>
    /\ files = <<>>
    /\ loader = Off
    /\ app = Off
    /\ ss = Off
    /\ calc = [pc |-> "idle"]
    /\ inp \in SynInputs

\* lqr_delay_K_calc(A, B, Q, R, T_s, delay) is called.
LqrDelayKCalc ==
    /\ calc.pc = "idle"
    /\ calc' = [ pc |-> "returned", fn |-> "lqr_delay_K_calc",
                 r |-> lqr_delay_K_calc(inp.A, inp.B, inp.Q, inp.R, inp.T_s, inp.delay,
                                        inp.are) ]
    /\ UNCHANGED <<inp, search, pool, running, exec, simvars, files, loader, ss, app>>

\* h_inf_delay_K_calc(A, B, gamma, T_s, delay) is called.
HInfDelayKCalc ==
    /\ calc.pc = "idle"
    /\ calc' = [ pc |-> "returned", fn |-> "h_inf_delay_K_calc",
                 r |-> h_inf_delay_K_calc(inp.A, inp.B, inp.T_s, inp.delay, inp.are) ]
    /\ UNCHANGED <<inp, search, pool, running, exec, simvars, files, loader, ss, app>>

\* compute_h_infinity_discrete(A, B, C, gamma, T_s, delay) is called.
ComputeHInfinityDiscrete ==
    /\ calc.pc = "idle"
    /\ calc' = [ pc |-> "returned", fn |-> "compute_h_infinity_discrete",
                 r |-> compute_h_infinity_discrete(inp.A, inp.B, inp.T_s, inp.delay,
                                                   inp.are) ]
    /\ UNCHANGED <<inp, search, pool, running, exec, simvars, files, loader, ss, app>>

SynNext == LqrDelayKCalc \/ HInfDelayKCalc \/ ComputeHInfinityDiscrete

SynSpec == SynInit /\ [][SynNext]_vars

\* The state cost given to the LQR call has a negative eigenvalue, or the
\* control cost has a non-positive one.
BadCosts ==
    \/ (~IsNone(inp.Q) /\ \E i \in 1..inp.Q.r : inp.Q.e[i][i] < 0)
    \/ (~IsNone(inp.R) /\ \E i \in 1..inp.R.r : inp.R.e[i][i] <= 0)

\* C21 as stated: an lqr_delay_K_calc call with a state cost that has a
\* negative eigenvalue, or a control cost that has a non-positive one, does
\* not invoke the Riccati solver, ends with the descriptive validation error
\* and returns no gain.
C21_ValidationBeforeSolve ==
    (calc.pc = "returned" /\ calc.fn = "lqr_delay_K_calc" /\ BadCosts) =>
        /\ ~calc.r.solved
        /\ calc.r.raised
        /\ calc.r.exc = "ValueError"
        /\ calc.r.msg \in { "Q_extended is not positive semi-definite.",
                            "R is not positive definite." }
        /\ IsNone(calc.r.value)

\* C22 as stated: when the routine that lqr_delay_K_calc or h_inf_delay_K_calc
\* wraps raised an error (failed validation or a failed Riccati solve), the
\* call does not return normally.
C22_ErrorsAbortTheCall ==
    (calc.pc = "returned" /\ calc.fn \in {"lqr_delay_K_calc", "h_inf_delay_K_calc"}
        /\ calc.r.inner # "") => calc.r.raised

\* C23 as stated: for every delay, a gain returned by one of the three
\* delay-aware routines has the 4 columns of the physical states, never the
\* columns of the delay states.
C23_GainOfLengthFour ==
    (calc.pc = "returned" /\ ~calc.r.raised /\ ~IsNone(calc.r.value)) =>
        calc.r.value.cols = <<1, 2, 3, 4>>

-----------------------------------------------------------------------------
(* state_space.doReport: eigenvalues, controllability matrix, pole
   placement, Riccati solution and H-infinity gain of the linearized pair.
   What scipy's place_poles and solve_continuous_are do with a given pair is
   drawn with the call: place_poles returns a gain for a controllable pair;
   for a rank-deficient one it raises ValueError when its linear solve meets
   an exactly singular matrix and returns a gain otherwise. *)

MaxReports == 2         \* most doReport calls on one object

RECURSIVE SumSeq(_)
SumSeq(s) == IF Len(s) = 0 THEN 0 ELSE s[1] + SumSeq(Tail(s))

\* The determinant of the square array S (rows of entries), by expansion
\* along the first row.
RECURSIVE Det(_)
Det(S) ==
    IF Len(S) = 0 THEN 1
    ELSE LET n == Len(S)
             Cut(j) == [i \in 1..(n - 1) |-> [k \in 1..(n - 1) |->
                            S[i + 1][IF k < j THEN k ELSE k + 1]]]
         IN  SumSeq([j \in 1..n |->
                        (IF j % 2 = 1 THEN 1 ELSE -1) * S[1][j] * Det(Cut(j))])

\* The elements of the set S of numbers in increasing order.
RECURSIVE Ascending(_)
Ascending(S) ==
    IF S = {} THEN <<>>
    ELSE LET least == CHOOSE x \in S : \A y \in S : x <= y
         IN  <<least>> \o Ascending(S \ {least})

\* np.linalg.matrix_rank(M): the size of the largest square sub-array of M
\* with a nonzero determinant.
matrix_rank(M) ==
    LET Sub(rows, cols) ==
            [i \in 1..Len(rows) |-> [j \in 1..Len(cols) |-> M.e[rows[i]][cols[j]]]]
        Regular(k) ==
            \E R \in SUBSET (1..M.r), C \in SUBSET (1..M.c) :
                /\ Cardinality(R) = k
                /\ Cardinality(C) = k
                /\ Det(Sub(Ascending(R), Ascending(C))) # 0
    IN  CHOOSE k \in 0..M.r : Regular(k) /\ \A l \in (k + 1)..M.r : ~Regular(l)

\* np.dot(A, B)
Dot(A, B) ==
    Matrix(A.r, B.c, [i \in 1..A.r |-> [j \in 1..B.c |->
        SumSeq([k \in 1..A.c |-> A.e[i][k] * B.e[k][j]])]])

\* np.hstack((c_1, c_2, c_3, c_4)) of columns
HStack4(c_1, c_2, c_3, c_4) ==
    Matrix(c_1.r, 4, [i \in 1..c_1.r |->
        <<c_1.e[i][1], c_2.e[i][1], c_3.e[i][1], c_4.e[i][1]>>])

\* _update_M: M = [B, AB, A^2 B, A^3 B] and its rank.
update_M(s) ==
    LET c_1 == s.B_lin
        c_2 == Dot(s.A_lin, c_1)
        c_3 == Dot(s.A_lin, c_2)
        c_4 == Dot(s.A_lin, c_3)
        Store(M) == [s EXCEPT !.M = M, !.M_rank = Num(matrix_rank(M))]
    IN  Store(HStack4(c_1, c_2, c_3, c_4))

\* scipy.signal.place_poles(A, B, poles) with the outcome place drawn for a
\* pair that is not controllable.
place_poles(A, B, poles, place) ==
    LET M == HStack4(B, Dot(A, B), Dot(A, Dot(A, B)), Dot(A, Dot(A, Dot(A, B))))
    IN  IF matrix_rank(M) < A.r /\ place = "ValueError"
        THEN Raised("ValueError", "The poles you've chosen can't be placed.", <<>>, FALSE, "")
        ELSE Returned([gain_matrix |-> Gain(B.c, [k \in 1..A.c |-> k]), poles |-> poles],
                      <<>>, FALSE, "")

\* doReport.  In single mode nothing is done and None is returned.  In double
\* mode the five updates run in turn, the first exception ends the call, and
\* the report is stored and returned after the last one.  care and h_inf say
\* whether solve_continuous_are succeeds in _update_Riccati_sol and in
\* _update_H_inf.
doReport(s, place, care, h_inf) ==
    LET Report(s3) ==
            [ M_rank |-> s3.M_rank, desired_poles |-> s3.desired_poles,
              K_gain |-> s3.cnt_pole_place.gain_matrix ]
        AfterPlace(s2, pp) ==
            IF pp.raised THEN [s |-> s2, out |-> pp]
            ELSE IF care = "fails"
            THEN [ s |-> [s2 EXCEPT !.cnt_pole_place = pp.value],
                   out |-> Raised("LinAlgError", "Failed to find a finite solution.",
                                  <<>>, TRUE, "") ]
            ELSE IF h_inf = "fails"
            THEN [ s |-> [s2 EXCEPT !.cnt_pole_place = pp.value],
                   out |-> Raised("LinAlgError", "Failed to find a finite solution.",
                                  <<>>, TRUE, "") ]
            ELSE [ s |-> [s2 EXCEPT !.cnt_pole_place = pp.value,
                                    !.report = Report([s2 EXCEPT !.cnt_pole_place = pp.value])],
                   out |-> Returned(Report([s2 EXCEPT !.cnt_pole_place = pp.value]),
                                    <<"SYSTEM_ANALYSIS_REPORT">>, TRUE, "") ]
        AfterM(s2) == AfterPlace(s2, place_poles(s2.A_lin, s2.B_lin, s2.desired_poles, place))
    IN  IF s.double_pendulum THEN AfterM(update_M(s))
        ELSE [s |-> s, out |-> Returned(None, <<>>, FALSE, "")]

\* A state_space object whose constants were updated: in double mode it holds
\* a linearized pair, in single mode none.
ReportStates ==
    { [ double_pendulum |-> TRUE, A_lin |-> A, B_lin |-> B, M |-> None, M_rank |-> None,
        desired_poles |-> <<-1, -2, -3, -4>>, cnt_pole_place |-> None, report |-> None ] :
        A \in PlantMatrices, B \in PlantInputs }
    \cup
    { [ double_pendulum |-> FALSE, A_lin |-> None, B_lin |-> None, M |-> None,
        M_rank |-> None, desired_poles |-> <<-1, -2, -3, -4>>, cnt_pole_place |-> None,
        report |-> None ] }

ReportInputs ==
    [ place : {"gain", "ValueError"}, care : {"solves", "fails"}, h_inf : {"solves", "fails"} ]

ReportInit ==
    /\ args = <<>>
    /\ sim = Off
    /\ search = Off
    /\ pool = <<>>
    /\ running = <<>>
    /\ exec = <<>>
    /\ files = <<>>
    /\ loader = Off
    /\ app = Off
    /\ inp = <<>>
    /\ calc = [pc |-> "idle", reports |-> 0]
    /\ ss \in ReportStates

\* doReport is called, as update_sys_variables does after every change of the
\* constants; calc keeps what scipy did in the call.
DoReport ==
    /\ calc.reports < MaxReports
    /\ \E in \in ReportInputs :
         LET r == doReport(ss, in.place, in.care, in.h_inf)
         IN  /\ ss' = r.s
             /\ calc' = [ pc |-> "returned", fn |-> "doReport", drawn |-> in,
                          r |-> r.out, reports |-> calc.reports + 1 ]
    /\ UNCHANGED <<inp, search, pool, running, exec, simvars, files, loader, app>>

ReportNext == DoReport

ReportSpec == ReportInit /\ [][ReportNext]_vars

-----------------------------------------------------------------------------
(* The running application: SIM_STATE.set_run_status (SIM_STATE.py), the main
   thread (init_simulation.py, config_settings_gui.py), the GUI thread
   (simgui_t.run) and the numsim thread (numsim_t.run, num_sim_update).  The
   threads share the SIM_STATE object without a lock, so a thread may be
   suspended between any two statements: set_run_status is a sequence of
   steps of the calling thread.
   app.samples counts the cursor samples since the last reset (x has samples
   entries, dx one less, q_array_list two less); app.start says whether
   simulation_timer.start is set; app.round numbers the stays in run_status 2;
   app.log lists the saves and resets with the round they happened in;
   app.quit says whether a request has written run_status 0. *)

MaxSamples == 6         \* cursor samples counted per round
MaxRounds == 1          \* stays in run_status 2

Threads == {"main", "gui", "numsim"}

\* A thread at position pc, outside set_run_status.
Frame(pc) == [pc |-> pc, new_state |-> 0, prev_state |-> 0, ret |-> ""]

\* A thread that enters set_run_status(new_state) and goes on at ret after it.
Call(new_state, ret) ==
    [pc |-> "srs_guard", new_state |-> new_state, prev_state |-> 0, ret |-> ret]

\* The thread leaves set_run_status.
Return(f) == Frame(f.ret)

\* len(mouse_input.dx) and len(mouse_input.q_array_list)
dx_len(a) == Max(a.samples - 1, 0)

q_len(a) == Max(a.samples - 2, 0)

\* SIM_STATE.__init__: run_status 0, no timer, empty stacks; no thread runs.
SIM_STATE_init(NUM_METHOD, FRAME_TRIM) ==
    [ NUM_METHOD |-> NUM_METHOD, FRAME_TRIM |-> FRAME_TRIM,
      run_status |-> 0, start |-> FALSE, samples |-> 0,
      round |-> 0, round_counter |-> 0, log |-> <<>>, quit |-> FALSE,
      th |-> [ main |-> Frame("start_threads"), gui |-> Frame("unstarted"),
               numsim |-> Frame("unstarted") ] ]

AppInit ==
    /\ args = <<>>
    /\ sim = Off
    /\ inp = <<>>
    /\ search = Off
    /\ pool = <<>>
    /\ running = <<>>
    /\ exec = <<>>
    /\ files = <<>>
    /\ loader = Off
    /\ ss = Off
    /\ calc = Off
    /\ \E NUM_METHOD \in {"rk4", "euler"}, FRAME_TRIM \in {0, 1} :
         app = SIM_STATE_init(NUM_METHOD, FRAME_TRIM)

AppRest == <<args, sim, inp, search, pool, running, exec, files, loader, ss, calc>>

\* Thread t is at position pc.
At(t, pc) == app # Off /\ app.th[t].pc = pc

\* set_run_status lines 167-171: the two cases in which the request is dropped.
SrsGuard(t) ==
    /\ At(t, "srs_guard")
    /\ LET f == app.th[t]
           dropped ==
               \/ (app.run_status = 1 /\ f.new_state = 2 /\ q_len(app) < 3 + app.FRAME_TRIM)
               \/ (app.run_status = 2 /\ f.new_state # 2 /\ ~app.start)
       IN  app' = [app EXCEPT !.th[t] = IF dropped THEN Return(f)
                                        ELSE [f EXCEPT !.pc = "srs_prev"]]
    /\ UNCHANGED AppRest

\* Line 173: prev_state = run_status
SrsPrev(t) ==
    /\ At(t, "srs_prev")
    /\ app' = [app EXCEPT !.th[t].prev_state = app.run_status, !.th[t].pc = "srs_write"]
    /\ UNCHANGED AppRest

\* Line 174: run_status = new_state
SrsWrite(t) ==
    /\ At(t, "srs_write")
    /\ LET f == app.th[t]
       IN  app' = [app EXCEPT !.run_status = f.new_state,
                              !.quit = @ \/ f.new_state = 0,
                              !.round = IF f.new_state = 2 /\ app.run_status # 2
                                        THEN @ + 1 ELSE @,
                              !.th[t].pc = "srs_branch"]
    /\ UNCHANGED AppRest

\* Lines 178-199: the branch on prev_state and new_state.  Leaving state 2
\* goes on to the timer, starting from state 1 sets the timer's start, every
\* other case returns.
SrsBranch(t) ==
    /\ At(t, "srs_branch")
    /\ LET f == app.th[t]
       IN  IF f.prev_state = 2 /\ f.new_state # 2
           THEN app' = [app EXCEPT !.th[t].pc = "srs_timer"]
           ELSE app' = [app EXCEPT !.start = IF f.prev_state = 1 /\ f.new_state = 2
                                             THEN TRUE ELSE @,
                                   !.th[t] = Return(f)]
    /\ UNCHANGED AppRest

\* Lines 207-211: end, interrupted and dtime = end - start, a TypeError when
\* start is None.
SrsTimer(t) ==
    /\ At(t, "srs_timer")
    /\ app' = [app EXCEPT !.th[t] = IF app.start THEN [@ EXCEPT !.pc = "srs_save"]
                                     ELSE Frame("crashed")]
    /\ UNCHANGED AppRest

\* Line 214: save_new_round
SrsSave(t) ==
    /\ At(t, "srs_save")
    /\ app' = [app EXCEPT !.round_counter = @ + 1,
                          !.log = Append(@, [ev |-> "save", round |-> app.round]),
                          !.th[t].pc = "srs_reset"]
    /\ UNCHANGED AppRest

\* Line 217: reset_numsim_round_data, then the return.
SrsReset(t) ==
    /\ At(t, "srs_reset")
    /\ app' = [app EXCEPT !.samples = 0, !.start = FALSE,
                          !.log = Append(@, [ev |-> "reset", round |-> app.round]),
                          !.th[t] = Return(app.th[t])]
    /\ UNCHANGED AppRest

\* simulationManager.start_threads: set_run_status(1), then the threads start.
StartThreadsCall ==
    /\ At("main", "start_threads")
    /\ app' = [app EXCEPT !.th.main = Call(1, "start")]
    /\ UNCHANGED AppRest

StartThreads ==
    /\ At("main", "start")
    /\ app' = [app EXCEPT !.th = [ main |-> Frame("started"), gui |-> Frame("loop"),
                                   numsim |-> Frame("loop") ]]
    /\ UNCHANGED AppRest

\* on_closing of the configuration window: set_run_status(0), root.destroy().
OnClosing ==
    /\ At("main", "started")
    /\ app' = [app EXCEPT !.th.main = Call(0, "destroy")]
    /\ UNCHANGED AppRest

Destroy ==
    /\ At("main", "destroy")
    /\ app' = [app EXCEPT !.th.main = Frame("closed")]
    /\ UNCHANGED AppRest

\* simgui_t.run line 113: the loop condition.
GuiLoop ==
    /\ At("gui", "loop")
    /\ app' = [app EXCEPT !.th.gui = Frame(IF app.run_status # 0 THEN "events"
                                           ELSE "stopped")]
    /\ UNCHANGED AppRest

\* Lines 117-137: one event of the queue.  QUIT and Q request run_status 0 and
\* break out of the loop; SPACE goes on to read run_status.
GuiEvent ==
    /\ At("gui", "events")
    /\ \E ev \in {"none", "QUIT", "K_SPACE", "K_q"} :
         /\ app' = [app EXCEPT !.th.gui =
                        IF ev = "none" THEN Frame("render")
                        ELSE IF ev = "K_SPACE" THEN Frame("space")
                        ELSE Call(0, "break")]
    /\ UNCHANGED AppRest

\* Lines 128-133: SPACE starts a simulation from the static run when dx has
\* more than one entry, and stops a running one.  At most MaxRounds
\* simulations are started.
GuiSpace ==
    /\ At("gui", "space")
    /\ (app.run_status = 1 /\ dx_len(app) > 1) => app.round < MaxRounds
    /\ app' = [app EXCEPT !.th.gui =
                   IF app.run_status = 1
                   THEN (IF dx_len(app) > 1 THEN Call(2, "render") ELSE Frame("render"))
                   ELSE IF app.run_status = 2 THEN Call(1, "render")
                   ELSE Frame("render")]
    /\ UNCHANGED AppRest

\* Lines 148-149: break
GuiBreak ==
    /\ At("gui", "break")
    /\ app' = [app EXCEPT !.th.gui = Frame("stopped")]
    /\ UNCHANGED AppRest

\* Lines 197-202: in run_status 2 the elapsed time time.time() - start is
\* written, a TypeError when start is None.
GuiRender ==
    /\ At("gui", "render")
    /\ app' = [app EXCEPT !.th.gui = Frame(IF app.run_status = 2 /\ ~app.start
                                           THEN "crashed" ELSE "loop")]
    /\ UNCHANGED AppRest

\* numsim_t.run line 31: the loop condition.
NumsimLoop ==
    /\ At("numsim", "loop")
    /\ app' = [app EXCEPT !.th.numsim = Frame(IF app.run_status # 0 THEN "update"
                                              ELSE "stopped")]
    /\ UNCHANGED AppRest

\* num_sim_update lines 23-32: one more cursor sample, then the test for
\* enough samples.
NumsimUpdate ==
    /\ At("numsim", "update")
    /\ LET samples == IF app.samples < MaxSamples THEN app.samples + 1 ELSE app.samples
       IN  app' = [app EXCEPT !.samples = samples,
                              !.th.numsim = Frame(IF samples - 2 > 2 + app.FRAME_TRIM
                                                  THEN "check" ELSE "loop")]
    /\ UNCHANGED AppRest

\* Line 35: if run_status() == 2
NumsimCheck ==
    /\ At("numsim", "check")
    /\ app' = [app EXCEPT !.th.numsim = Frame(IF app.run_status = 2 THEN "step"
                                              ELSE "loop")]
    /\ UNCHANGED AppRest

\* Lines 37-45: num_sim reads q[-2] (IndexError on a list that was reset) and
\* raises ValueError in solve_ode for a method other than 'rk4'; otherwise
\* the state is appended and, if the angle limit is reached,
\* set_run_status(1) is called.
NumsimStep ==
    /\ At("numsim", "step")
    /\ \E exceeded \in BOOLEAN :
         app' = [app EXCEPT !.th.numsim =
                     IF q_len(app) < 2 \/ app.NUM_METHOD # "rk4" THEN Frame("crashed")
                     ELSE IF exceeded THEN Call(1, "loop")
                     ELSE Frame("loop")]
    /\ UNCHANGED AppRest

AppNext ==
    \/ \E t \in Threads :
          \/ SrsGuard(t) \/ SrsPrev(t) \/ SrsWrite(t) \/ SrsBranch(t)
          \/ SrsTimer(t) \/ SrsSave(t) \/ SrsReset(t)
    \/ StartThreadsCall \/ StartThreads \/ OnClosing \/ Destroy
    \/ GuiLoop \/ GuiEvent \/ GuiSpace \/ GuiBreak \/ GuiRender
    \/ NumsimLoop \/ NumsimUpdate \/ NumsimCheck \/ NumsimStep

AppSpec == AppInit /\ [][AppNext]_vars

\* C25 as stated: with a NUM_METHOD other than 'rk4' the simulation threads
\* are never started and run_status never reaches 2.
C25_UnsupportedMethodRejected ==
    app.NUM_METHOD # "rk4" =>
        /\ app.th.gui.pc = "unstarted"
        /\ app.th.numsim.pc = "unstarted"
        /\ app.run_status # 2

\* C26 as stated: once a quit request has set run_status to 0, run_status is
\* 0 in every later state, whatever the interleaving of the threads.
C26_QuitIsFinal == app.quit => app.run_status = 0

\* C27 as stated: run_status never changes directly from 0 to 2.
C27_NeverFromZeroToTwo == [][app.run_status = 0 => app'.run_status # 2]_vars

\* The number of entries of the log with event ev in round r.
LogCount(ev, r) ==
    Cardinality({i \in 1..Len(app.log) : app.log[i] = [ev |-> ev, round |-> r]})

\* C28 as stated: every stay in run_status 2 is saved at most once and reset
\* at most once, a reset comes after the save of its round, and once state 2
\* is left and no thread is inside set_run_status the round has been saved
\* and reset.
C28_SavedOnceThenReset ==
    \A r \in 1..app.round :
        /\ LogCount("save", r) <= 1
        /\ LogCount("reset", r) <= 1
        /\ \A i \in 1..Len(app.log) :
              app.log[i] = [ev |-> "reset", round |-> r] =>
                  \E j \in 1..(i - 1) : app.log[j] = [ev |-> "save", round |-> r]
        /\ ( /\ (r < app.round \/ app.run_status # 2)
             /\ \A t \in Threads : app.th[t].ret = "" )
           => (LogCount("save", r) = 1 /\ LogCount("reset", r) = 1)

-----------------------------------------------------------------------------
(* The stack of control values: SIM_STATE.read_PD_u_q and update_PD_vals
   (SIM_STATE.py).  app holds SIM_STATE_VAR["PD_control"], a clock standing
   for time.time(), the result of the last read_PD_u_q call of a caller
   (num_sim, the GUI) and the exception that ended the last update_PD_vals.
   A control value is the tuple <<ddu, du, u, ts>>. *)

MaxPdTrim == 2          \* PD_FRAME_TRIM
MaxPdStack == 4         \* entries of PD_control_stack
MaxPdTicks == 5         \* readings of time.time()

\* The result of a call: a value, or the exception that ended it.
Got(v) == [value |-> v]

Failed(exc) == [exc |-> exc]

\* Python's list index: the 1-based position of dataset[i] in a list of n
\* entries, 0 when dataset[i] raises IndexError.
PyAt(i, n) ==
    IF i < 0 THEN (IF -i <= n THEN n + i + 1 ELSE 0)
    ELSE (IF i < n THEN i + 1 ELSE 0)

\* dataset[i]["PD_u_q"]
PD_u_q_at(dataset, i) ==
    IF PyAt(i, Len(dataset)) = 0 THEN Failed("IndexError")
    ELSE Got(dataset[PyAt(i, Len(dataset))].PD_u_q)

\* The value read when nothing is available: [.0, .0, .0, None]
ZeroDefault == <<0, 0, 0, None>>

\* SIM_STATE.read_PD_u_q(index, force_read, trim) on the PD_control block P
read_PD_u_q(P, index, force_read, trim) ==
    LET dataset == P.PD_control_stack
        PD_frame_trim == P.PD_FRAME_TRIM
    IN  IF Len(dataset) >= Abs(index)
        THEN IF force_read \/ P.PD_CONTROL_ON
             THEN IF trim /\ Len(dataset) > PD_frame_trim
                  THEN IF Abs(index - PD_frame_trim) < Len(dataset)
                       THEN PD_u_q_at(dataset, index - PD_frame_trim)
                       ELSE PD_u_q_at(dataset, index)
                  ELSE PD_u_q_at(dataset, index)
             ELSE Got(ZeroDefault)
        ELSE Got(ZeroDefault)

\* SIM_STATE.update_PD_vals(force_calc) with the measured angle phi_1_act at
\* time ts_n: the new PD_control block, or the exception that ends the call.
update_PD_vals(P, force_calc, phi_1_act, ts_n) ==
    IF force_calc \/ P.PD_CONTROL_ON
    THEN LET ddq_u == -(P.PD_K_1 * phi_1_act)
             entry(u_q_l) == [PD_phi_1_act |-> phi_1_act, PD_u_q |-> u_q_l]
             push(u_q_l) ==
                 Got([P EXCEPT !.PD_control_stack = Append(@, entry(u_q_l))])
         IN  IF Len(P.PD_control_stack) > 1
             THEN LET pre_u == read_PD_u_q(P, -1, FALSE, TRUE)
                  IN  IF "exc" \in DOMAIN pre_u THEN pre_u
                      ELSE IF IsNone(pre_u.value[4]) THEN Failed("TypeError")
                      ELSE LET dt_s == ts_n - pre_u.value[4].val
                               du == ddq_u * dt_s
                           IN  push(<<ddq_u, du, du * dt_s, Num(ts_n)>>)
             ELSE push(<<ddq_u, 0, 0, Num(ts_n)>>)
    ELSE Got(P)

PdInit ==
    /\ args = <<>>
    /\ sim = Off
    /\ inp = <<>>
    /\ search = Off
    /\ pool = <<>>
    /\ running = <<>>
    /\ exec = <<>>
    /\ files = <<>>
    /\ loader = Off
    /\ ss = Off
    /\ calc = Off
    /\ \E on \in BOOLEAN, pd_ft \in 0..MaxPdTrim, k1 \in {1, 2} :
         app = [ PD_control |-> [ PD_CONTROL_ON |-> on, PD_FRAME_TRIM |-> pd_ft,
                                  PD_K_1 |-> k1, PD_control_stack |-> <<>> ],
                 clock |-> 0, read |-> None, err |-> "" ]

\* num_sim_update line 41 (and a forced call): update_PD_vals at the next
\* clock value.  The caller's earlier read is consumed.
UpdatePDVals ==
    /\ "PD_control" \in DOMAIN app
    /\ Len(app.PD_control.PD_control_stack) < MaxPdStack
    /\ app.clock < MaxPdTicks
    /\ \E force_calc \in BOOLEAN, phi_1_act \in {0, 1} :
         LET r == update_PD_vals(app.PD_control, force_calc, phi_1_act, app.clock + 1)
         IN  app' = [ PD_control |-> IF "exc" \in DOMAIN r THEN app.PD_control ELSE r.value,
                      clock |-> app.clock + 1, read |-> None,
                      err |-> IF "exc" \in DOMAIN r THEN r.exc ELSE "" ]
    /\ UNCHANGED AppRest

\* num_sim line 23 and simgui_t line 176 call read_PD_u_q(); other callers
\* may pass an index and the two flags.
ReadPDUq ==
    /\ "PD_control" \in DOMAIN app
    /\ \E index \in {-2, -1, 0}, force_read \in BOOLEAN, trim \in BOOLEAN :
         app' = [app EXCEPT !.read =
                     [ index |-> index, force_read |-> force_read, trim |-> trim,
                       out |-> read_PD_u_q(app.PD_control, index, force_read, trim) ]]
    /\ UNCHANGED AppRest

\* reset_numsim_round_data line 266: PD_control_stack = []
ResetPDStack ==
    /\ "PD_control" \in DOMAIN app
    /\ app.PD_control.PD_control_stack # <<>>
    /\ app' = [app EXCEPT !.PD_control.PD_control_stack = <<>>, !.read = None,
                          !.err = ""]
    /\ UNCHANGED AppRest

PdNext == UpdatePDVals \/ ReadPDUq \/ ResetPDStack

PdSpec == PdInit /\ [][PdNext]_vars

\* C29 as stated: with PD control on, read_PD_u_q(-1) with trim returns the
\* control value exactly PD_FRAME_TRIM positions before the newest entry of
\* PD_control_stack whenever the stack is longer than PD_FRAME_TRIM, and
\* the zero default [0, 0, 0, None] when the stack is empty.
C29_DelayedControlValue ==
    ( /\ ~IsNone(app.read)
      /\ app.read.index = -1 /\ app.read.trim
      /\ app.PD_control.PD_CONTROL_ON )
    => LET dataset == app.PD_control.PD_control_stack
           PD_frame_trim == app.PD_control.PD_FRAME_TRIM
       IN  /\ Len(dataset) > PD_frame_trim =>
                 app.read.out = Got(dataset[Len(dataset) - PD_frame_trim].PD_u_q)
           /\ Len(dataset) = 0 => app.read.out = Got(ZeroDefault)

-----------------------------------------------------------------------------
(* SIM_STATE.update_sys_variables and its callers (SIM_STATE.__init__,
   reset_numsim_round_data, simgui_t.rod_length_decrease_action), with the
   plant step num_sim that reads the result.  app holds the configuration,
   simulation_config.DOUBLE_PENDULUM, stateVars.sys_state and the outcome of
   the last plant step; ss is the state_space object state_space_ref. *)

MaxSysStates == 4       \* entries of stateVars.sys_state

\* state_space.get_system_constants: always the ten attributes.
get_system_constants(s) ==
    <<s.C1, s.C2, s.C3, s.C4, s.C5, s.m1, s.m2, s.l1, s.l2, s.g>>

\* SIM_STATE.update_sys_variables(l1, l2) on the SIM_STATE a with the
\* state_space s: the two objects after the call.  doReport, which works in
\* double mode only, either returns or raises (report); when it raises the
\* state_space is updated and sys_state is not.
update_sys_variables(a, s, l1, l2, report) ==
    LET rho1 == a.config.rho1
        rho2 == a.config.rho2
        g == a.config.g
        s1 == update_system_constants(s, rho1, rho2, l1, l2, g)
        sys_consts == get_system_constants(s1)
    IN  IF s1.double_pendulum /\ report = "raises"
        THEN [app |-> [a EXCEPT !.err = "doReport"], ss |-> s1]
        ELSE [app |-> [a EXCEPT !.sys_state = Append(@, [l1 |-> l1, l2 |-> l2,
                                                         sys_consts |-> sys_consts]),
                                !.err = ""],
              ss |-> s1]

\* SIM_STATE.__init__ with the configuration c: DOUBLE_PENDULUM and the
\* state_space take the configured mode, then update_sys_variables runs
\* with the configured rod lengths.
SIM_STATE_vars(c) ==
    update_sys_variables(
        [ config |-> c,
          simulation_config |-> [DOUBLE_PENDULUM |-> c.double_pendulum],
          sys_state |-> <<>>, plant |-> None, err |-> "" ],
        state_space_init(c.double_pendulum),
        c.rod_a_length_m, c.rod_b_length_m, "ok")

\* The configurations: the mode, the rod lengths and the decrease per step.
Configurations ==
    [ double_pendulum : BOOLEAN,
      rod_a_length_m : {Num(2), Num(3)}, rod_b_length_m : {Num(0), Num(1), Num(2)},
      rod_a_dl_m : {0, 1}, rod_b_dl_m : {0, 1},
      rho1 : {Num(1)}, rho2 : {Num(2)}, g : {Num(10)} ]

VarInit ==
    /\ args = <<>>
    /\ sim = Off
    /\ inp = <<>>
    /\ search = Off
    /\ pool = <<>>
    /\ running = <<>>
    /\ exec = <<>>
    /\ files = <<>>
    /\ loader = Off
    /\ calc = Off
    /\ \E c \in Configurations :
         /\ app = SIM_STATE_vars(c).app
         /\ ss = SIM_STATE_vars(c).ss

VarRest == <<args, sim, inp, search, pool, running, exec, files, loader, calc>>

\* get_l1 / get_l2: the lengths of the latest sys_state entry, the configured
\* ones when there is none.
get_l1(a) ==
    IF a.sys_state = <<>> THEN a.config.rod_a_length_m
    ELSE a.sys_state[Len(a.sys_state)].l1

get_l2(a) ==
    IF a.sys_state = <<>> THEN a.config.rod_b_length_m
    ELSE a.sys_state[Len(a.sys_state)].l2

\* simgui_t.rod_length_decrease_action(dL1, dL2), called by
\* check_for_length_decrease with the configured steps, for both rods or for
\* one of them.  Rod A is kept longer than 0 and rod B at least 0.
RodLengthDecreaseAction ==
    /\ "sys_state" \in DOMAIN app
    /\ Len(app.sys_state) < MaxSysStates
    /\ \E dL1 \in {0, app.config.rod_a_dl_m}, dL2 \in {0, app.config.rod_b_dl_m},
          report \in {"ok", "raises"} :
         LET l1 == get_l1(app)
             l2 == get_l2(app)
             r == IF IsNone(l2)
                  THEN update_sys_variables(app, ss, Num(l1.val - dL1), None, report)
                  ELSE update_sys_variables(app, ss, Num(l1.val - dL1),
                                            Num(l2.val - dL2), report)
         IN  /\ l1.val - dL1 > 0
             /\ IsNone(l2) \/ l2.val - dL2 >= 0
             /\ app' = [r.app EXCEPT !.plant = None]
             /\ ss' = r.ss
    /\ UNCHANGED VarRest

\* reset_numsim_round_data lines 246-256: sys_state is emptied and
\* update_sys_variables runs with the configured rod lengths.
ResetSysState ==
    /\ "sys_state" \in DOMAIN app
    /\ app.sys_state # <<>>
    /\ \E report \in {"ok", "raises"} :
         LET r == update_sys_variables([app EXCEPT !.sys_state = <<>>], ss,
                                       app.config.rod_a_length_m,
                                       app.config.rod_b_length_m, report)
         IN  /\ app' = [r.app EXCEPT !.plant = None]
             /\ ss' = r.ss
    /\ UNCHANGED VarRest

\* num_sim(double_pendulum, SIM_STATE): the plant of the configured variant
\* receives get_latest_sys_consts().  The double plant unpacks ten constants
\* and computes with them, the single plant unpacks five.
NumSimPlant ==
    /\ "sys_state" \in DOMAIN app
    /\ app.sys_state # <<>>
    /\ LET double_pendulum == app.simulation_config.DOUBLE_PENDULUM
           latest_sys_const == app.sys_state[Len(app.sys_state)].sys_consts
           outcome ==
               IF double_pendulum
               THEN IF \E i \in 1..Len(latest_sys_const) : IsNone(latest_sys_const[i])
                    THEN "TypeError" ELSE "stepped"
               ELSE IF Len(latest_sys_const) # 5 THEN "ValueError" ELSE "stepped"
       IN  app' = [app EXCEPT !.plant = [ double_pendulum |-> double_pendulum,
                                          received |-> Len(latest_sys_const),
                                          outcome |-> outcome ]]
    /\ UNCHANGED <<ss, VarRest>>

VarNext == RodLengthDecreaseAction \/ ResetSysState \/ NumSimPlant

VarSpec == VarInit /\ [][VarNext]_vars

\* C30 as stated: after any sequence of update_sys_variables calls
\* simulation_config.DOUBLE_PENDULUM equals state_space.double_pendulum, and
\* the plant model receives the constants of its own variant: ten for the
\* double pendulum, five for the single one.
C30_FlagsAgree ==
    /\ app.simulation_config.DOUBLE_PENDULUM = ss.double_pendulum
    /\ ~IsNone(app.plant) =>
          app.plant.received = (IF app.plant.double_pendulum THEN 10 ELSE 5)

====
